---- MODULE Spec2Model ----
(***************************************************************************)
(* Model of the Menu / MenuItem widgets (src/core/menu.ts and the MenuItem *)
(* class in src/unnamed/part_003).                                         *)
(*                                                                         *)
(* A Menu holds an ordered list of MenuItem objects.  Each MenuItem is one *)
(* of the objects 1..MaxItems; its fields are the functions enabled,       *)
(* highlight, actionHandler and itemElement.  DOM elements are named by    *)
(* the render that created them (1, 2, ...); 0 is null.  The DOM state     *)
(* that the code reads or writes (class lists, the aria attribute, the     *)
(* child list of the root, the listeners bound) is part of the state.      *)
(*                                                                         *)
(* Coordinates are in half pixels, so that distances below, at and above   *)
(* one pixel all occur between points of the grid.                         *)
(***************************************************************************)
EXTENDS Integers, Sequences, FiniteSets, TLC

\* ---- bounds of the model -------------------------------------------------
MaxItems == 2
MaxRenders == 2
MaxNodes == 4
MaxClicks == 3

\* ---- values ----------------------------------------------------------------
Null == 0
NoCoord == << >>
NoId == << >>
Items == 1 .. MaxItems
OnePixel == 2

ENTER == "ENTER"
SPACE == "SPACE"
UP == "UP"
DOWN == "DOWN"
PAGE_UP == "PAGE_UP"
PAGE_DOWN == "PAGE_DOWN"
HOME == "HOME"
END_KEY == "END"
KeyCodes == {ENTER, SPACE, UP, DOWN, PAGE_UP, PAGE_DOWN, HOME, END_KEY, "ESC"}
Modifiers == {"shift", "ctrl", "meta", "alt"}
\* the modifier combinations of the key events delivered
ModifierSets == {{}, {"shift"}, {"ctrl"}, {"meta"}, {"alt"}}

EventTypes == {"pointerover", "pointerdown", "pointerenter", "pointerleave", "keydown"}

\* the client positions of the clicks delivered, in half pixels
Coords == {<<0, 0>>, <<1, 1>>, <<2, 0>>, <<2, 1>>}
OpeningCoordsValues == {<<0, 0>>}
NotANumber == << >>
MarkerIds == {"a", "b"}
MarkerObjects == {11, 12}
Cursors == {21, 22}

\* the value undefined among the strings of a category definition or a theme
Undefined == "undefined"
\* ToolboxCategory.defaultBackgroundColour
defaultBackgroundColour == "#57e"
\* the colour attributes given: none, empty, hues, hex strings, a colour name,
\* something unrecognised, and message references that resolve to a hue and to
\* something unrecognised
ColourValues ==
    {Undefined, "", "0", "210", "#57e", "#a5745b", "red", "bogus", "%{BKY_LOGIC_HUE}",
     "%{BKY_TYPO}"}
StyleNames == {"logic_category", "math_category", "text_category", "list_category"}
\* category definitions: categorystyle is the documented key, categoryStyle the
\* alternative spelling that getColour_ falls back to
CategoryDefs ==
    [colour : ColourValues,
     categorystyle : {Undefined, "", "logic_category", "text_category", "list_category"},
     categoryStyle : {Undefined, "math_category"}]
\* a style of a theme: absent, or present with or without a colour
NoStyle == "no style"
NoStyles == [name \in StyleNames |-> NoStyle]
\* the themes of the workspace: none, one without styles, and two with styles
\* whose colours are a hue, a hex string, missing, empty and unrecognised
Themes ==
    { [exists |-> FALSE, categoryStyles |-> NoStyles],
      [exists |-> TRUE, categoryStyles |-> NoStyles],
      [exists |-> TRUE,
       categoryStyles |-> [NoStyles EXCEPT !["logic_category"] = "210",
                                           !["math_category"] = "#a5745b",
                                           !["text_category"] = Undefined]],
      [exists |-> TRUE,
       categoryStyles |-> [NoStyles EXCEPT !["logic_category"] = "bogus",
                                           !["math_category"] = "",
                                           !["text_category"] = "%{BKY_LOGIC_HUE}",
                                           !["list_category"] = "red"]] }

\* the delay of the timeout of resetZoom, in milliseconds
TransitionDelay == 500
\* the numbers of the zoom-reset clicks
Clicks == 1 .. MaxClicks
\* how far time moves between two events, in milliseconds
Elapses == {200, 300}
\* no timeout pending
NoTimeout == -1

VARIABLES
    menuItems,          \* Menu.menuItems : sequence of items
    openingCoords,      \* Menu.openingCoords : a coordinate or NoCoord
    mouseEnterHandler,  \* the five listener handles (0 = null)
    mouseLeaveHandler,
    onKeyDownHandler,
    mouseOverHandler,
    clickHandler,
    highlightedItem,    \* Menu.highlightedItem : an item or Null
    element,            \* Menu.element : the root element or Null
    enabled,            \* MenuItem.enabled, per item
    highlight,          \* MenuItem.highlight, per item
    actionHandler,      \* MenuItem.actionHandler is non-null, per item
    itemElement,        \* MenuItem.element, per item (0 = null)
    classHighlight,     \* 'blocklyMenuItemHighlight' is in the item element's classList
    focused,            \* 'blocklyFocused' is in the root element's classList
    activeDescendant,   \* aria-activedescendant of the root element (an element id or NoId)
    rootChildren,       \* the children of the root element, in DOM order
    bound,              \* the listeners currently bound: <<event type, root>>
    renderCount,        \* number of root elements created so far
    lastOp,             \* the operation executed last, with its inputs
    stopped,            \* event.stopPropagation() was called by the last operation
    prevented,          \* event.preventDefault() was called by the last operation
    called,             \* the items whose performAction() the last operation called
    performed,          \* the items whose action handler the last operation invoked
    raised,             \* the last operation threw
    unbound,            \* the listeners the last operation unbound, in call order
    seenCoords,         \* openingCoords as each action handler run by the last operation saw it
    markers,            \* MarkerManager.markers : marker id -> marker object (0 = no entry)
    cursor_,            \* MarkerManager.cursor_ : a cursor object or Null
    cursorSvg_,         \* MarkerManager.cursorSvg_ : an SVG node or Null
    drawerDom,          \* per marker or cursor object: the SVG node of its drawer (0 = no drawer)
    canvas,             \* the children of the workspace's block canvas, in DOM order
    nodeCount,          \* number of SVG nodes created by drawers so far
    hasCanvas,          \* workspace.getBlockCanvas() is not null
    disposeRemovesDom,  \* Drawer.dispose() takes the drawer's node out of the canvas
    markerOp,           \* the MarkerManager operation executed last
    markerRaised,       \* the last MarkerManager operation threw
    markerKeys,         \* the keys of MarkerManager.markers in the Map's insertion order
    markerCalls,        \* the calls the last MarkerManager operation made on markers, cursors,
                        \* drawers and the renderer, in order
    keyboardAccessibilityMode,  \* workspace.keyboardAccessibilityMode
    disposedObjects,    \* the markers and cursors whose dispose() has been called
    readOnly,           \* workspace.options.readOnly
    gestureInProgress,  \* Gesture.inProgress()
    selected,           \* common.getSelected(): a selection or Nothing
    clipboard,          \* what clipboard.copy stored last, or Nothing
    shortcutOp,         \* the shortcut operation executed last
    shortcutCalls,      \* the calls the last shortcut operation made, in order
    shortcutResult,     \* what the last callback, or the dispatcher, returned
    shortcutRaised,     \* the last shortcut operation threw
    toolboxItemDef_,    \* ToolboxCategory.toolboxItemDef_ : colour, categorystyle, categoryStyle
    theme,              \* workspace_.getTheme(): whether there is one, and its categoryStyles
    colour_,            \* ToolboxCategory.colour_
    rowDiv_,            \* ToolboxCategory.rowDiv_ is not null
    backgroundColor,    \* rowDiv_.style.backgroundColor
    borderColour,       \* the colour of the border of rowDiv_ ("" = no border)
    selectedClass,      \* the CSS class 'selected' of the configuration is on rowDiv_
    ariaSelected,       \* aria-selected of htmlDiv_
    toolboxWarnings,    \* what the last ToolboxCategory operation logged with console.warn
    toolboxOp,          \* the ToolboxCategory operation executed last
    zoomTimers,         \* per click: milliseconds until its timeout fires (-1 = no timeout pending)
    zoomBegun,          \* per click: calls of workspace.beginCanvasTransition
    zoomEnded,          \* per click: calls of workspace.endCanvasTransition
    zoomClicks,         \* number of zoom-reset clicks handled so far
    zoomBound,          \* onZoomResetWrapper is bound
    zoomDisposed,       \* ZoomControls.dispose() was called
    zoomOp              \* the ZoomControls operation executed last

menuVars == <<menuItems, openingCoords, mouseEnterHandler, mouseLeaveHandler,
              onKeyDownHandler, mouseOverHandler, clickHandler, highlightedItem, element>>
menuFrame == <<menuItems, openingCoords, mouseEnterHandler, mouseLeaveHandler,
                             onKeyDownHandler, mouseOverHandler, clickHandler, element>>
itemVars == <<enabled, highlight, actionHandler, itemElement>>
domVars == <<classHighlight, focused, activeDescendant, rootChildren, bound, renderCount>>
outVars == <<lastOp, stopped, prevented, called, performed, raised, unbound, seenCoords>>
markerVars == <<markers, cursor_, cursorSvg_, drawerDom, canvas, nodeCount, hasCanvas,
                disposeRemovesDom, markerOp, markerRaised, markerKeys, markerCalls,
                keyboardAccessibilityMode, disposedObjects>>
shortcutVars == <<readOnly, gestureInProgress, selected, clipboard, shortcutOp, shortcutCalls,
                  shortcutResult, shortcutRaised>>
toolboxVars == <<toolboxItemDef_, theme, colour_, rowDiv_, backgroundColor, borderColour,
                 selectedClass, ariaSelected, toolboxWarnings, toolboxOp>>
zoomVars == <<zoomTimers, zoomBegun, zoomEnded, zoomClicks, zoomBound, zoomDisposed, zoomOp>>
vars == <<menuVars, itemVars, domVars, outVars, markerVars, shortcutVars, toolboxVars, zoomVars>>

\* ---- helpers ---------------------------------------------------------------
Range(s) == {s[k] : k \in 1 .. Len(s)}

\* Array.prototype.indexOf, 0-based, -1 when absent
indexOf(s, x) ==
    IF x \in Range(s) THEN (CHOOSE k \in 1 .. Len(s) : s[k] = x /\ \A j \in 1 .. k - 1 : s[j] # x) - 1
    ELSE -1

\* this.menuItems[index], 0-based; Null stands for undefined
itemAt(index) == IF index >= 0 /\ index < Len(menuItems) THEN menuItems[index + 1] ELSE Null

isEmpty == Len(menuItems) < 1

\* the element id of an item's element (idGenerator gives each created element its own id)
getId(item) == <<item, itemElement[item]>>

\* ---- MenuItem --------------------------------------------------------------
\* MenuItem.setHighlighted on the pair s = [highlight, cls] of item flags and classes
\* variant of MenuItem.setHighlighted that tests the enabled flag before anything else
MenuItem_setHighlighted_guardFirst(s, item, h) ==
    IF ~enabled[item] THEN s
    ELSE [highlight |-> [s.highlight EXCEPT ![item] = h],
          cls |-> [s.cls EXCEPT ![item] = IF itemElement[item] = Null THEN @ ELSE h]]

MenuItem_setHighlighted(s, item, h) ==
    [highlight |-> [s.highlight EXCEPT ![item] = h],
     cls |-> [s.cls EXCEPT ![item] =
                IF itemElement[item] = Null THEN @
                ELSE IF ~enabled[item] THEN @
                ELSE h]]

\* variant of MenuItem_performAction without the test of the enabled flag
MenuItem_performAction_unguarded(item) ==
    IF actionHandler[item] THEN <<item>> ELSE << >>

\* MenuItem.performAction: the items whose handler runs
MenuItem_performAction(item) ==
    IF ~enabled[item] THEN << >>
    ELSE IF actionHandler[item] THEN <<item>> ELSE << >>

\* variant of setHighlighted that does not take the highlight off the previous item
setHighlighted_keepingPrevious(item) ==
    IF item = Null
    THEN [highlight |-> highlight, cls |-> classHighlight, highlightedItem |-> Null,
          activeDescendant |-> activeDescendant, raised |-> FALSE]
    ELSE LET s2 == MenuItem_setHighlighted([highlight |-> highlight, cls |-> classHighlight],
                                           item, TRUE)
             ok == itemElement[item] # Null /\ element # Null
         IN  [highlight |-> s2.highlight, cls |-> s2.cls, highlightedItem |-> item,
              activeDescendant |-> IF ok THEN getId(item) ELSE activeDescendant,
              raised |-> ~ok]

\* ---- Menu.setHighlighted ---------------------------------------------------
\* The result of Menu.setHighlighted(item) as a record of the fields it writes.
\* With a non-null item whose element, or the menu's element, is null the
\* trailing DOM calls dereference null and throw after the fields were written.
setHighlighted(item) ==
    LET s0 == [highlight |-> highlight, cls |-> classHighlight]
        s1 == IF highlightedItem # Null
              THEN MenuItem_setHighlighted(s0, highlightedItem, FALSE)
              ELSE s0
    IN  IF item = Null
        THEN [highlight |-> s1.highlight, cls |-> s1.cls, highlightedItem |-> Null,
              activeDescendant |-> activeDescendant, raised |-> FALSE]
        ELSE LET s2 == MenuItem_setHighlighted(s1, item, TRUE)
                 ok == itemElement[item] # Null /\ element # Null
             IN  [highlight |-> s2.highlight, cls |-> s2.cls, highlightedItem |-> item,
                  activeDescendant |-> IF ok THEN getId(item) ELSE activeDescendant,
                  raised |-> ~ok]

\* the record of an operation that leaves the highlight state alone
NoChange ==
    [highlight |-> highlight, cls |-> classHighlight, highlightedItem |-> highlightedItem,
     activeDescendant |-> activeDescendant, raised |-> FALSE]

Apply(r) ==
    /\ highlight' = r.highlight
    /\ classHighlight' = r.cls
    /\ highlightedItem' = r.highlightedItem
    /\ activeDescendant' = r.activeDescendant
    /\ raised' = r.raised

\* ---- highlight navigation --------------------------------------------------
\* variant of scan that stops at the first item, enabled or not
scan_anyItem(index, delta) == itemAt(index)

RECURSIVE scan(_, _)
\* the loop of highlightHelper: the first enabled item at index, index+delta, ...
scan(index, delta) ==
    IF itemAt(index) = Null THEN Null
    ELSE IF enabled[itemAt(index)] THEN itemAt(index)
    ELSE scan(index + delta, delta)

highlightHelper(startIndex, delta) ==
    LET found == scan(startIndex + delta, delta)
    IN  IF found = Null THEN NoChange ELSE setHighlighted(found)

\* variant of highlightNext that starts at index 0 when nothing is highlighted
highlightNext_fromZero ==
    LET index == IF highlightedItem # Null THEN indexOf(menuItems, highlightedItem) ELSE 0
    IN  highlightHelper(index, 1)

highlightNext ==
    LET index == IF highlightedItem # Null THEN indexOf(menuItems, highlightedItem) ELSE -1
    IN  highlightHelper(index, 1)

\* variant of highlightPrevious without the restart from the end of the list
highlightPrevious_noRestart ==
    LET index == IF highlightedItem # Null THEN indexOf(menuItems, highlightedItem) ELSE -1
    IN  highlightHelper(index, -1)

highlightPrevious ==
    LET index0 == IF highlightedItem # Null THEN indexOf(menuItems, highlightedItem) ELSE -1
        index == IF index0 < 0 THEN Len(menuItems) ELSE index0
    IN  highlightHelper(index, -1)

highlightFirst == highlightHelper(-1, 1)

\* variant of highlightLast that starts its search one item early
highlightLast_offByOne == highlightHelper(Len(menuItems) - 1, -1)

highlightLast == highlightHelper(Len(menuItems), -1)

\* ---- DOM nodes and Menu.getMenuItem ----------------------------------------
\* A node is <<kind, item, root>>: the root element created by render number
\* root, the div of an item created by that render, the content div inside it,
\* or the container the root was appended to.
NullNode == <<"null", 0, 0>>
rootNode(g) == IF g = Null THEN NullNode ELSE <<"root", 0, g>>
itemNode(item) == IF itemElement[item] = Null THEN NullNode ELSE <<"item", item, itemElement[item]>>

parentElement(n) ==
    CASE n[1] = "content" -> <<"item", n[2], n[3]>>
      [] n[1] = "item" -> <<"root", 0, n[3]>>
      [] n[1] = "root" -> <<"container", 0, 0>>
      [] OTHER -> NullNode

\* the nodes at or below the root element an event listener is bound to
Targets(g) ==
    {<<"root", 0, g>>}
    \cup {<<"item", rootChildren[k], g>> : k \in 1 .. Len(rootChildren)}
    \cup {<<"content", rootChildren[k], g>> : k \in 1 .. Len(rootChildren)}

RECURSIVE getMenuItemFrom(_)
getMenuItemFrom(current) ==
    IF current = NullNode \/ current = rootNode(element) THEN Null
    ELSE IF current[1] = "item" /\ \E k \in 1 .. Len(menuItems) : itemNode(menuItems[k]) = current
         THEN menuItems[CHOOSE k \in 1 .. Len(menuItems) :
                           /\ itemNode(menuItems[k]) = current
                           /\ \A j \in 1 .. k - 1 : itemNode(menuItems[j]) # current]
         ELSE getMenuItemFrom(parentElement(current))

getMenuItem(child) == getMenuItemFrom(child)

\* ---- coordinates -----------------------------------------------------------
\* the square of Coordinate.distance(a, b), in half pixels
distanceSq(a, b) == (a[1] - b[1]) * (a[1] - b[1]) + (a[2] - b[2]) * (a[2] - b[2])

\* variant of closerThanOnePixel with <= in place of <
closerThanOnePixel_inclusive(a, b) == distanceSq(a, b) <= OnePixel * OnePixel

\* Coordinate.distance(a, b) < 1
closerThanOnePixel(a, b) == distanceSq(a, b) < OnePixel * OnePixel

\* ---- the record of the last operation ---------------------------------------
Op(name) ==
    [op |-> name, key |-> "", mod |-> FALSE, target |-> NullNode, client |-> << >>, opening |-> << >>,
     item |-> Null, flag |-> FALSE]

NoEventEffect ==
    /\ stopped' = FALSE
    /\ prevented' = FALSE
    /\ called' = << >>
    /\ performed' = << >>
    /\ seenCoords' = << >>

\* an operation of the menu that unbinds no listener; the MarkerManager is another object
Quiet == unbound' = << >> /\ UNCHANGED <<markerVars, shortcutVars, toolboxVars, zoomVars>>

\* ---- Init ------------------------------------------------------------------
\* the MarkerManager after construction
MarkerInit ==
    /\ markers = [id \in MarkerIds |-> Null]
    /\ cursor_ = Null
    /\ cursorSvg_ = Null
    /\ drawerDom = [o \in MarkerObjects \cup Cursors |-> Null]
    /\ canvas = << >>
    /\ nodeCount = 0
    /\ markerOp = [op |-> "new", id |-> "", obj |-> Null]
    /\ markerRaised = FALSE
    /\ markerKeys = << >>
    /\ markerCalls = << >>
    /\ keyboardAccessibilityMode = FALSE
    /\ disposedObjects = {}

\* the Menu and its items after construction
MenuInit ==
    /\ menuItems = << >>
    /\ openingCoords = NoCoord
    /\ mouseEnterHandler = Null
    /\ mouseLeaveHandler = Null
    /\ onKeyDownHandler = Null
    /\ mouseOverHandler = Null
    /\ clickHandler = Null
    /\ highlightedItem = Null
    /\ element = Null
    /\ enabled = [i \in Items |-> TRUE]
    /\ highlight = [i \in Items |-> FALSE]
    /\ actionHandler = [i \in Items |-> FALSE]
    /\ itemElement = [i \in Items |-> Null]
    /\ classHighlight = [i \in Items |-> FALSE]
    /\ focused = FALSE
    /\ activeDescendant = NoId
    /\ rootChildren = << >>
    /\ bound = {}
    /\ renderCount = 0
    /\ lastOp = Op("new")
    /\ stopped = FALSE
    /\ prevented = FALSE
    /\ called = << >>
    /\ performed = << >>
    /\ raised = FALSE
    /\ unbound = << >>
    /\ seenCoords = << >>

\* a workspace that is editable, with no drag gesture, no selection and an
\* empty clipboard
ShortcutInit ==
    /\ readOnly = FALSE
    /\ gestureInProgress = FALSE
    /\ selected = [none |-> TRUE]
    /\ clipboard = [none |-> TRUE]
    /\ shortcutOp = [op |-> "new", name |-> "", chord |-> << >>]
    /\ shortcutCalls = << >>
    /\ shortcutResult = FALSE
    /\ shortcutRaised = FALSE

\* a ToolboxCategory after construction, before init()
CategoryInit ==
    /\ colour_ = ""
    /\ rowDiv_ = FALSE
    /\ backgroundColor = ""
    /\ borderColour = ""
    /\ selectedClass = FALSE
    /\ ariaSelected = FALSE
    /\ toolboxWarnings = << >>
    /\ toolboxOp = [op |-> "new", flag |-> FALSE]

\* a category without colour and style, in a workspace whose theme has no styles
ToolboxInit ==
    /\ CategoryInit
    /\ toolboxItemDef_ = [colour |-> Undefined, categorystyle |-> Undefined,
                          categoryStyle |-> Undefined]
    /\ theme = [exists |-> TRUE, categoryStyles |-> NoStyles]

\* ZoomControls after construction
ZoomInit ==
    /\ zoomTimers = [c \in Clicks |-> NoTimeout]
    /\ zoomBegun = [c \in Clicks |-> 0]
    /\ zoomEnded = [c \in Clicks |-> 0]
    /\ zoomClicks = 0
    /\ zoomBound = FALSE
    /\ zoomDisposed = FALSE
    /\ zoomOp = [op |-> "new", click |-> 0]

\* a menu, and a MarkerManager of a workspace with a block canvas
Init ==
    /\ MenuInit
    /\ MarkerInit
    /\ ShortcutInit
    /\ ToolboxInit
    /\ ZoomInit
    /\ hasCanvas = TRUE
    /\ disposeRemovesDom = TRUE

\* a MarkerManager of a workspace with or without block canvas, whose renderer
\* makes drawers that do or do not take their node out of the DOM on dispose()
InitMarker ==
    /\ MenuInit
    /\ MarkerInit
    /\ ShortcutInit
    /\ ToolboxInit
    /\ ZoomInit
    /\ hasCanvas \in BOOLEAN
    /\ disposeRemovesDom \in BOOLEAN

\* ---- operations of the Menu -------------------------------------------------
addChild(item) ==
    /\ menuItems' = Append(menuItems, item)
    /\ Quiet
    /\ lastOp' = Op("addChild")
    /\ raised' = FALSE
    /\ NoEventEffect
    /\ UNCHANGED <<openingCoords, mouseEnterHandler, mouseLeaveHandler, onKeyDownHandler,
                   mouseOverHandler, clickHandler, highlightedItem, element>>
    /\ UNCHANGED <<itemVars, domVars>>

\* variant of the loop of render that puts each new child first
RECURSIVE appendChildren_prepending(_, _)
appendChildren_prepending(children, items) ==
    IF items = << >> THEN children
    ELSE appendChildren_prepending(<<Head(items)>> \o children, Tail(items))

\* the loop of render: element.appendChild(item.createDom()) for the items in turn
RECURSIVE appendChildren(_, _)
appendChildren(children, items) ==
    IF items = << >> THEN children
    ELSE appendChildren(Append(children, Head(items)), Tail(items))

\* MenuItem.createDom for every item of the menu, then the five binds
render ==
    LET g == renderCount + 1
    IN  /\ renderCount' = g
        /\ element' = g
        /\ itemElement' = [i \in Items |-> IF i \in Range(menuItems) THEN g ELSE itemElement[i]]
        /\ classHighlight' = [i \in Items |->
                                IF i \in Range(menuItems) THEN highlight[i] ELSE classHighlight[i]]
        /\ rootChildren' = appendChildren(<< >>, menuItems)
        /\ focused' = FALSE
        /\ activeDescendant' = NoId
        /\ mouseOverHandler' = g
        /\ clickHandler' = g
        /\ mouseEnterHandler' = g
        /\ mouseLeaveHandler' = g
        /\ onKeyDownHandler' = g
        /\ bound' = bound \cup {<<t, g>> : t \in EventTypes}
        /\ Quiet
        /\ lastOp' = Op("render")
        /\ raised' = FALSE
        /\ NoEventEffect
        /\ UNCHANGED <<menuItems, openingCoords, highlightedItem, enabled, highlight, actionHandler>>

\* browserEvents.unbind is called once for every stored handle, in this order
unbindAll_skippingClick ==
       (IF mouseEnterHandler # Null THEN << <<"pointerenter", mouseEnterHandler>> >> ELSE << >>)
    \o (IF mouseLeaveHandler # Null THEN << <<"pointerleave", mouseLeaveHandler>> >> ELSE << >>)
    \o (IF mouseOverHandler # Null THEN << <<"pointerover", mouseOverHandler>> >> ELSE << >>)
    \o (IF onKeyDownHandler # Null THEN << <<"keydown", onKeyDownHandler>> >> ELSE << >>)

unbindAll ==
       (IF mouseEnterHandler # Null THEN << <<"pointerenter", mouseEnterHandler>> >> ELSE << >>)
    \o (IF mouseLeaveHandler # Null THEN << <<"pointerleave", mouseLeaveHandler>> >> ELSE << >>)
    \o (IF mouseOverHandler # Null THEN << <<"pointerover", mouseOverHandler>> >> ELSE << >>)
    \o (IF onKeyDownHandler # Null THEN << <<"keydown", onKeyDownHandler>> >> ELSE << >>)
    \o (IF clickHandler # Null THEN << <<"pointerdown", clickHandler>> >> ELSE << >>)

dispose ==
    /\ bound' = bound \ Range(unbindAll)
    /\ mouseEnterHandler' = Null
    /\ mouseLeaveHandler' = Null
    /\ onKeyDownHandler' = Null
    /\ mouseOverHandler' = Null
    /\ clickHandler' = Null
    /\ itemElement' = [i \in Items |-> IF i \in Range(menuItems) THEN Null ELSE itemElement[i]]
    /\ classHighlight' = [i \in Items |-> IF i \in Range(menuItems) THEN FALSE ELSE classHighlight[i]]
    /\ element' = Null
    /\ focused' = FALSE
    /\ activeDescendant' = NoId
    /\ unbound' = unbindAll
    /\ UNCHANGED <<markerVars, shortcutVars, toolboxVars, zoomVars>>
    /\ lastOp' = Op("dispose")
    /\ raised' = FALSE
    /\ NoEventEffect
    /\ UNCHANGED <<menuItems, openingCoords, highlightedItem, enabled, highlight, actionHandler,
                   rootChildren, renderCount>>

\* the frame of an operation that writes only what Menu.setHighlighted writes
HighlightFrame ==
    UNCHANGED <<menuFrame, enabled, actionHandler, itemElement,
                focused, rootChildren, bound, renderCount>>

\* a call of the public method Menu.setHighlighted(item)
callSetHighlighted(item) ==
    /\ Apply(setHighlighted(item))
    /\ Quiet
    /\ lastOp' = Op("setHighlighted")
    /\ NoEventEffect
    /\ HighlightFrame

callHighlightNext ==
    /\ Apply(highlightNext)
    /\ Quiet
    /\ lastOp' = Op("highlightNext")
    /\ NoEventEffect
    /\ HighlightFrame

callHighlightPrevious ==
    /\ Apply(highlightPrevious)
    /\ Quiet
    /\ lastOp' = Op("highlightPrevious")
    /\ NoEventEffect
    /\ HighlightFrame

\* Menu.focus / Menu.blur: the value of the focus class afterwards
focus == IF element = Null THEN focused ELSE TRUE

blur == IF element = Null THEN focused ELSE FALSE

\* ---- event handlers ---------------------------------------------------------
\* variant of handleMouseOver that leaves the highlight alone over a disabled item
handleMouseOver_ignoringDisabled(target) ==
    LET menuItem == getMenuItem(target)
    IN  IF menuItem = Null THEN NoChange
        ELSE IF enabled[menuItem] /\ highlightedItem # menuItem
             THEN setHighlighted(menuItem)
             ELSE NoChange

handleMouseOver(target) ==
    LET menuItem == getMenuItem(target)
    IN  IF menuItem = Null THEN NoChange
        ELSE IF enabled[menuItem]
             THEN IF highlightedItem # menuItem THEN setHighlighted(menuItem) ELSE NoChange
             ELSE setHighlighted(Null)

pointerOver(target) ==
    /\ Apply(handleMouseOver(target))
    /\ Quiet
    /\ lastOp' = [Op("pointerover") EXCEPT !.target = target]
    /\ NoEventEffect
    /\ HighlightFrame

\* the calls and the handler runs of item?.performAction()
performActionOn(item) ==
    [called |-> IF item = Null THEN << >> ELSE <<item>>,
     performed |-> IF item = Null THEN << >> ELSE MenuItem_performAction(item)]

\* Menu.handleClick: the item whose performAction() it calls, or Null
handleClick(target, client) ==
    IF /\ openingCoords # NoCoord
       /\ client # NotANumber
       /\ closerThanOnePixel(openingCoords, client)
    THEN Null
    ELSE getMenuItem(target)

\* the first thing handleClick does with the field, after copying it to oldCoords
resetOpeningCoords_whenSuppressed(target, client) ==
    IF handleClick(target, client) = Null /\ getMenuItem(target) # Null THEN NoCoord
    ELSE openingCoords

resetOpeningCoords(target, client) == NoCoord

click(target, client) ==
    /\ openingCoords' = resetOpeningCoords(target, client)
    /\ called' = performActionOn(handleClick(target, client)).called
    /\ performed' = performActionOn(handleClick(target, client)).performed
    /\ seenCoords' = [k \in 1 .. Len(performActionOn(handleClick(target, client)).performed)
                         |-> resetOpeningCoords(target, client)]
    /\ Quiet
    /\ lastOp' = [Op("click") EXCEPT !.target = target, !.client = client,
                                     !.opening = openingCoords]
    /\ stopped' = FALSE
    /\ prevented' = FALSE
    /\ raised' = FALSE
    /\ UNCHANGED <<menuItems, mouseEnterHandler, mouseLeaveHandler, onKeyDownHandler,
                   mouseOverHandler, clickHandler, highlightedItem, element>>
    /\ UNCHANGED <<itemVars, domVars>>

pointerEnter ==
    /\ focused' = focus
    /\ Quiet
    /\ lastOp' = Op("pointerenter")
    /\ raised' = FALSE
    /\ NoEventEffect
    /\ UNCHANGED <<menuVars, itemVars, classHighlight, activeDescendant, rootChildren, bound,
                   renderCount>>

\* variant of handleMouseLeave without the test of the root element
handleMouseLeave_unguarded == setHighlighted(Null)

handleMouseLeave == IF element = Null THEN NoChange ELSE setHighlighted(Null)

pointerLeave ==
    /\ focused' = blur
    /\ Apply(handleMouseLeave)
    /\ Quiet
    /\ lastOp' = Op("pointerleave")
    /\ NoEventEffect
    /\ UNCHANGED <<menuFrame, enabled, actionHandler, itemElement, rootChildren, bound,
                   renderCount>>

\* variant of keyIgnored without the test of the meta key
keyIgnored_withoutMeta(mods) ==
    \/ isEmpty
    \/ "shift" \in mods
    \/ "ctrl" \in mods
    \/ "alt" \in mods

\* the early returns of Menu.handleKeyEvent
keyIgnored(mods) ==
    \/ isEmpty
    \/ "shift" \in mods
    \/ "ctrl" \in mods
    \/ "meta" \in mods
    \/ "alt" \in mods

\* variant of keySwitch that returns early from Enter and Space when no item
\* is highlighted
keySwitch_enterNeedsHighlight(keyCode) ==
    CASE keyCode \in {ENTER, SPACE} ->
            [hl |-> NoChange, action |-> highlightedItem, handled |-> highlightedItem # Null]
      [] keyCode = UP -> [hl |-> highlightPrevious, action |-> Null, handled |-> TRUE]
      [] keyCode = DOWN -> [hl |-> highlightNext, action |-> Null, handled |-> TRUE]
      [] keyCode \in {PAGE_UP, HOME} ->
            [hl |-> highlightFirst, action |-> Null, handled |-> TRUE]
      [] keyCode \in {PAGE_DOWN, END_KEY} ->
            [hl |-> highlightLast, action |-> Null, handled |-> TRUE]
      [] OTHER -> [hl |-> NoChange, action |-> Null, handled |-> FALSE]

\* the switch of Menu.handleKeyEvent: what it does to the highlight, whose
\* handler it runs, and whether it reaches the two calls after the switch
keySwitch(keyCode) ==
    CASE keyCode \in {ENTER, SPACE} ->
            [hl |-> NoChange, action |-> highlightedItem, handled |-> TRUE]
      [] keyCode = UP -> [hl |-> highlightPrevious, action |-> Null, handled |-> TRUE]
      [] keyCode = DOWN -> [hl |-> highlightNext, action |-> Null, handled |-> TRUE]
      [] keyCode \in {PAGE_UP, HOME} ->
            [hl |-> highlightFirst, action |-> Null, handled |-> TRUE]
      [] keyCode \in {PAGE_DOWN, END_KEY} ->
            [hl |-> highlightLast, action |-> Null, handled |-> TRUE]
      [] OTHER -> [hl |-> NoChange, action |-> Null, handled |-> FALSE]

handleKeyEvent(keyCode, mods) ==
    IF keyIgnored(mods)
    THEN [hl |-> NoChange, action |-> Null, handled |-> FALSE]
    ELSE keySwitch(keyCode)

keyDown(keyCode, mods) ==
    LET r == handleKeyEvent(keyCode, mods)
    IN  /\ Apply(r.hl)
        /\ called' = performActionOn(r.action).called
        /\ performed' = performActionOn(r.action).performed
        /\ stopped' = (r.handled /\ ~r.hl.raised)
        /\ prevented' = (r.handled /\ ~r.hl.raised)
        /\ seenCoords' = [k \in 1 .. Len(performActionOn(r.action).performed) |-> openingCoords]
        /\ Quiet
        /\ lastOp' = [Op("keydown") EXCEPT !.key = keyCode, !.mod = (mods # {})]
        /\ HighlightFrame

\* ---- operations of a MenuItem and of the menu's owner -----------------------
setEnabled(item, b) ==
    /\ enabled' = [enabled EXCEPT ![item] = b]
    /\ Quiet
    /\ lastOp' = Op("setEnabled")
    /\ raised' = FALSE
    /\ NoEventEffect
    /\ UNCHANGED <<menuVars, highlight, actionHandler, itemElement, domVars>>

onAction(item) ==
    /\ actionHandler' = [actionHandler EXCEPT ![item] = TRUE]
    /\ Quiet
    /\ lastOp' = Op("onAction")
    /\ raised' = FALSE
    /\ NoEventEffect
    /\ UNCHANGED <<menuVars, enabled, highlight, itemElement, domVars>>

\* a call of item.performAction() from outside the menu
performAction(item) ==
    /\ called' = <<item>>
    /\ performed' = MenuItem_performAction(item)
    /\ seenCoords' = [k \in 1 .. Len(MenuItem_performAction(item)) |-> openingCoords]
    /\ stopped' = FALSE
    /\ prevented' = FALSE
    /\ Quiet
    /\ lastOp' = [Op("performAction") EXCEPT !.item = item]
    /\ raised' = FALSE
    /\ UNCHANGED <<menuVars, itemVars, domVars>>

\* a call of item.setHighlighted(b) from outside the menu
itemSetHighlighted(item, b) ==
    LET r == MenuItem_setHighlighted([highlight |-> highlight, cls |-> classHighlight], item, b)
    IN  /\ highlight' = r.highlight
        /\ classHighlight' = r.cls
        /\ Quiet
        /\ lastOp' = [Op("MenuItem.setHighlighted") EXCEPT !.item = item, !.flag = b]
        /\ raised' = FALSE
        /\ NoEventEffect
        /\ UNCHANGED <<menuVars, enabled, actionHandler, itemElement, focused, activeDescendant,
                       rootChildren, bound, renderCount>>

\* the owner of the menu records where the pointer was when the menu opened
setOpeningCoords(c) ==
    /\ openingCoords' = c
    /\ Quiet
    /\ lastOp' = Op("setOpeningCoords")
    /\ raised' = FALSE
    /\ NoEventEffect
    /\ UNCHANGED <<menuItems, mouseEnterHandler, mouseLeaveHandler, onKeyDownHandler,
                   mouseOverHandler, clickHandler, highlightedItem, element>>
    /\ UNCHANGED <<itemVars, domVars>>

\* ---- the menu in use ---------------------------------------------------------
\* Items are added while the menu has no root element, the menu is rendered
\* while it has none, and an event reaches a handler only through a listener
\* that is bound.  Every added item is a new object.
build ==
    \/ /\ element = Null
       /\ Len(menuItems) < MaxItems
       /\ addChild(Len(menuItems) + 1)
    \/ /\ element = Null
       /\ renderCount < MaxRenders
       /\ render
    \/ \E item \in Range(menuItems), b \in BOOLEAN : setEnabled(item, b)

deliverPointerOver ==
    \E g \in 1 .. renderCount :
        /\ <<"pointerover", g>> \in bound
        /\ \E target \in Targets(g) : pointerOver(target)

deliverClick ==
    \E g \in 1 .. renderCount :
        /\ <<"pointerdown", g>> \in bound
        /\ \E target \in Targets(g), client \in Coords \cup {NotANumber} : click(target, client)

deliverPointerEnter ==
    \E g \in 1 .. renderCount : <<"pointerenter", g>> \in bound /\ pointerEnter

deliverPointerLeave ==
    \E g \in 1 .. renderCount : <<"pointerleave", g>> \in bound /\ pointerLeave

deliverKeyDown ==
    \E g \in 1 .. renderCount :
        /\ <<"keydown", g>> \in bound
        /\ \E keyCode \in KeyCodes, mods \in ModifierSets : keyDown(keyCode, mods)

\* Spec: the highlight of a menu under the navigation methods, the pointer and
\* the keyboard.
Next ==
    \/ build
    \/ dispose
    \/ \E item \in Range(menuItems) \cup {Null} : callSetHighlighted(item)
    \/ callHighlightNext
    \/ callHighlightPrevious
    \/ deliverPointerOver
    \/ deliverPointerEnter
    \/ deliverPointerLeave
    \/ deliverKeyDown

Spec == Init /\ [][Next]_vars

\* SpecKey: the keyboard on a menu whose items have action handlers.
NextKey ==
    \/ build
    \/ \E item \in Range(menuItems) : onAction(item)
    \/ deliverPointerOver
    \/ deliverKeyDown

SpecKey == Init /\ [][NextKey]_vars

\* SpecClick: clicks on a menu whose items have action handlers.
NextClick ==
    \/ build
    \/ dispose
    \/ \E item \in Range(menuItems) : onAction(item)
    \/ \E c \in OpeningCoordsValues : setOpeningCoords(c)
    \/ deliverClick

SpecClick == Init /\ [][NextClick]_vars

\* SpecLifecycle: render and dispose in any order, and events that reach the
\* handlers of a menu in any stage of its life.
\* a second render() of a menu that is still rendered
renderAgain ==
    /\ element # Null
    /\ renderCount < MaxRenders
    /\ render

\* the nodes an event can name as its target when the menu has no root element
DetachedTargets == {<<"container", 0, 0>>} \cup UNION {Targets(g) : g \in 1 .. renderCount}

\* an event handed to a handler of a menu that is not rendered or was disposed
eventWithoutElement ==
    /\ element = Null
    /\ \/ \E target \in DetachedTargets : pointerOver(target)
       \/ \E target \in DetachedTargets : click(target, NotANumber)
       \/ pointerEnter
       \/ pointerLeave
       \/ \E keyCode \in KeyCodes : keyDown(keyCode, {})

NextLifecycle ==
    \/ build
    \/ renderAgain
    \/ dispose
    \/ deliverPointerOver
    \/ deliverPointerEnter
    \/ deliverPointerLeave
    \/ deliverKeyDown
    \/ eventWithoutElement

SpecLifecycle == Init /\ [][NextLifecycle]_vars

\* SpecEvents: a menu that is built, with the enabled flags of its items chosen
\* before it is rendered, and then receives the events of its user only.
buildThenRender ==
    \/ /\ element = Null
       /\ Len(menuItems) < MaxItems
       /\ addChild(Len(menuItems) + 1)
    \/ /\ element = Null
       /\ \E item \in Range(menuItems), b \in BOOLEAN : setEnabled(item, b)
    \/ /\ element = Null
       /\ renderCount < MaxRenders
       /\ render

NextEvents ==
    \/ buildThenRender
    \/ deliverPointerOver
    \/ deliverPointerEnter
    \/ deliverPointerLeave
    \/ deliverKeyDown
    \/ deliverClick

SpecEvents == Init /\ [][NextEvents]_vars

\* ---- MarkerManager ------------------------------------------------------------
\* Node.removeChild
removeNode(children, node) == SelectSeq(children, LAMBDA x : x # node)

\* the 1-based place of a node among the children, 0 when it is not a child
placeOf(children, node) ==
    IF \E k \in 1 .. Len(children) : children[k] = node
    THEN CHOOSE k \in 1 .. Len(children) : children[k] = node
    ELSE 0

\* Node.insertBefore(node, reference), reference being a child
insertBefore(children, node, reference) ==
    LET k == placeOf(children, reference)
    IN  SubSeq(children, 1, k - 1) \o <<node>> \o SubSeq(children, k, Len(children))

\* Drawer.dispose() of the drawer whose node is given
Drawer_dispose(children, node) ==
    IF disposeRemovesDom /\ node # Null THEN removeNode(children, node) ELSE children

\* variant of setMarkerSvg that appends whether or not there is a cursor node
setMarkerSvg_appending(children, marker) ==
    IF ~hasCanvas THEN [canvas |-> children, raised |-> FALSE]
    ELSE [canvas |-> Append(children, marker), raised |-> FALSE]

\* MarkerManager.setMarkerSvg with a node: the canvas afterwards, and whether
\* insertBefore threw because cursorSvg_ is no child of the canvas
setMarkerSvg(children, marker) ==
    IF ~hasCanvas THEN [canvas |-> children, raised |-> FALSE]
    ELSE IF cursorSvg_ # Null
         THEN IF placeOf(children, cursorSvg_) = 0
              THEN [canvas |-> children, raised |-> TRUE]
              ELSE [canvas |-> insertBefore(children, marker, cursorSvg_), raised |-> FALSE]
         ELSE [canvas |-> Append(children, marker), raised |-> FALSE]

\* MarkerManager.setCursorSvg with a node: the canvas afterwards
setCursorSvg(children, cursor) == IF hasCanvas THEN Append(children, cursor) ELSE children

MarkerFrame ==
    UNCHANGED <<menuVars, itemVars, domVars, outVars, hasCanvas, disposeRemovesDom, shortcutVars,
                toolboxVars, zoomVars>>

\* MarkerManager.getMarker: Null stands for null
getMarker(id) == markers[id]

\* MarkerManager.getCursor
getCursor == cursor_

\* Map.prototype.delete on the keys
deleteKey(keys, id) == SelectSeq(keys, LAMBDA k : k # id)

\* variant of unregisterCalls that drops the entry without disposing the marker
unregisterCalls_withoutDispose(id) == << >>

\* the calls of unregisterMarker(id) for a registered id
unregisterCalls(id) == << <<"dispose", markers[id]>> >>

unregisterMarker(id) ==
    /\ IF markers[id] = Null
       THEN /\ markerRaised' = TRUE
            /\ markerCalls' = << >>
            /\ UNCHANGED <<markers, canvas, markerKeys, disposedObjects>>
       ELSE /\ markerRaised' = FALSE
            /\ markerCalls' = unregisterCalls(id)
            /\ disposedObjects' = disposedObjects \cup {markers[id]}
            /\ canvas' = Drawer_dispose(canvas, drawerDom[markers[id]])
            /\ markers' = [markers EXCEPT ![id] = Null]
            /\ markerKeys' = deleteKey(markerKeys, id)
    /\ markerOp' = [op |-> "unregisterMarker", id |-> id, obj |-> Null]
    /\ UNCHANGED <<cursor_, cursorSvg_, drawerDom, nodeCount, keyboardAccessibilityMode>>
    /\ MarkerFrame

\* variant of registerCalls that makes the new drawer before it unregisters the old marker
registerCalls_drawerFirst(id, marker) ==
    << <<"makeMarkerDrawer", marker>>, <<"setDrawer", marker>> >>
    \o (IF markers[id] # Null THEN unregisterCalls(id) ELSE << >>)
    \o << <<"createDom", marker>> >>

\* the calls of registerMarker(id, marker) up to setMarkerSvg
registerCalls(id, marker) ==
    (IF markers[id] # Null THEN unregisterCalls(id) ELSE << >>)
    \o << <<"makeMarkerDrawer", marker>>, <<"setDrawer", marker>>, <<"createDom", marker>> >>

registerMarker(id, marker) ==
    LET unregistered == IF markers[id] # Null
                        THEN Drawer_dispose(canvas, drawerDom[markers[id]])
                        ELSE canvas
        dom == nodeCount + 1
        r == setMarkerSvg(unregistered, dom)
    IN  /\ nodeCount' = dom
        /\ drawerDom' = [drawerDom EXCEPT ![marker] = dom]
        /\ canvas' = r.canvas
        /\ markerRaised' = r.raised
        /\ markerCalls' = registerCalls(id, marker)
        /\ markers' = IF r.raised
                      THEN [markers EXCEPT ![id] = Null]
                      ELSE [markers EXCEPT ![id] = marker]
        /\ markerKeys' = IF r.raised
                         THEN deleteKey(markerKeys, id)
                         ELSE Append(deleteKey(markerKeys, id), id)
        /\ disposedObjects' = disposedObjects \cup ({markers[id]} \ {Null})
        /\ markerOp' = [op |-> "registerMarker", id |-> id, obj |-> marker]
        /\ UNCHANGED <<cursor_, cursorSvg_, keyboardAccessibilityMode>>
        /\ MarkerFrame

\* variant of setCursorCalls that disposes the previous cursor, not only its drawer
setCursorCalls_disposingCursor(cursor) ==
    (IF cursor_ # Null /\ drawerDom[cursor_] # Null
     THEN << <<"dispose", cursor_>> >> ELSE << >>)
    \o (IF cursor = Null THEN << >>
        ELSE << <<"makeMarkerDrawer", cursor>>, <<"setDrawer", cursor>>, <<"createDom", cursor>> >>)

\* the calls of setCursor(cursor)
setCursorCalls(cursor) ==
    (IF cursor_ # Null /\ drawerDom[cursor_] # Null
     THEN << <<"drawer.dispose", cursor_>> >> ELSE << >>)
    \o (IF cursor = Null THEN << >>
        ELSE << <<"makeMarkerDrawer", cursor>>, <<"setDrawer", cursor>>, <<"createDom", cursor>> >>)

setCursor(cursor) ==
    LET disposed == IF cursor_ # Null /\ drawerDom[cursor_] # Null
                    THEN Drawer_dispose(canvas, drawerDom[cursor_])
                    ELSE canvas
        dom == nodeCount + 1
    IN  /\ cursor_' = cursor
        /\ IF cursor = Null
           THEN /\ canvas' = disposed
                /\ UNCHANGED <<cursorSvg_, drawerDom, nodeCount>>
           ELSE /\ nodeCount' = dom
                /\ drawerDom' = [drawerDom EXCEPT ![cursor] = dom]
                /\ canvas' = setCursorSvg(disposed, dom)
                /\ cursorSvg_' = dom
        /\ markerRaised' = FALSE
        /\ markerCalls' = setCursorCalls(cursor)
        /\ markerOp' = [op |-> "setCursor", id |-> "", obj |-> cursor]
        /\ UNCHANGED <<markers, markerKeys, keyboardAccessibilityMode, disposedObjects>>
        /\ MarkerFrame

\* variant of updateCalls without the test of cursorSvg_
updateCalls_withoutCursorSvg ==
    IF ~keyboardAccessibilityMode THEN << >>
    ELSE << <<"draw", Null>> >>

\* the calls of updateMarkers(); workspace.getCursor() returns the workspace's cursor
updateCalls ==
    IF ~keyboardAccessibilityMode THEN << >>
    ELSE IF cursorSvg_ = Null THEN << >>
    ELSE << <<"draw", Null>> >>

updateMarkers ==
    /\ markerCalls' = updateCalls
    /\ markerRaised' = FALSE
    /\ markerOp' = [op |-> "updateMarkers", id |-> "", obj |-> Null]
    /\ UNCHANGED <<markers, markerKeys, cursor_, cursorSvg_, drawerDom, canvas, nodeCount,
                   keyboardAccessibilityMode, disposedObjects>>
    /\ MarkerFrame

\* the canvas after the drawers of the markers under the given keys were disposed
RECURSIVE disposeDrawers(_, _)
disposeDrawers(children, keys) ==
    IF keys = << >> THEN children
    ELSE disposeDrawers(Drawer_dispose(children, drawerDom[markers[Head(keys)]]), Tail(keys))

\* the calls of MarkerManager.dispose(): unregisterMarker for every key, then the cursor
disposeCalls ==
    [k \in 1 .. Len(markerKeys) |-> <<"dispose", markers[markerKeys[k]]>>]
    \o (IF cursor_ = Null THEN << >> ELSE << <<"dispose", cursor_>> >>)

MarkerManager_dispose ==
    /\ markerCalls' = disposeCalls
    /\ canvas' = IF cursor_ = Null
                 THEN disposeDrawers(canvas, markerKeys)
                 ELSE Drawer_dispose(disposeDrawers(canvas, markerKeys), drawerDom[cursor_])
    /\ markers' = [id \in MarkerIds |-> Null]
    /\ markerKeys' = << >>
    /\ cursor_' = Null
    /\ markerRaised' = FALSE
    /\ disposedObjects' = disposedObjects \cup (({markers[id] : id \in MarkerIds} \cup {cursor_}) \ {Null})
    /\ markerOp' = [op |-> "dispose", id |-> "", obj |-> Null]
    /\ UNCHANGED <<cursorSvg_, drawerDom, nodeCount, keyboardAccessibilityMode>>
    /\ MarkerFrame

\* the workspace switches keyboard-accessibility mode
setKeyboardAccessibilityMode(b) ==
    /\ keyboardAccessibilityMode' = b
    /\ markerCalls' = << >>
    /\ markerRaised' = FALSE
    /\ markerOp' = [op |-> "setKeyboardAccessibilityMode", id |-> "", obj |-> Null]
    /\ UNCHANGED <<markers, markerKeys, cursor_, cursorSvg_, drawerDom, canvas, nodeCount,
                   disposedObjects>>
    /\ MarkerFrame

\* the manager has not been disposed: a disposed manager is not used again
InUse == markerOp.op # "dispose"

\* SpecMarker: markers registered and unregistered and cursors set in any order,
\* as long as the renderer has made fewer than MaxNodes drawers, until the
\* manager is disposed.
NextMarker ==
    \/ \E id \in MarkerIds, marker \in MarkerObjects :
          InUse /\ nodeCount < MaxNodes /\ registerMarker(id, marker)
    \/ \E id \in MarkerIds : InUse /\ unregisterMarker(id)
    \/ \E cursor \in Cursors : InUse /\ nodeCount < MaxNodes /\ setCursor(cursor)
    \/ InUse /\ updateMarkers
    \/ InUse /\ MarkerManager_dispose
    \/ \E b \in BOOLEAN : InUse /\ setKeyboardAccessibilityMode(b)

SpecMarker == InitMarker /\ [][NextMarker]_vars

\* SpecCursor: cursors set and cleared, markers registered and unregistered and
\* the manager disposed, in any order.
NextCursor ==
    \/ \E id \in MarkerIds, marker \in MarkerObjects :
          nodeCount < MaxNodes /\ registerMarker(id, marker)
    \/ \E id \in MarkerIds : unregisterMarker(id)
    \/ \E cursor \in Cursors \cup {Null} :
          (cursor # Null => nodeCount < MaxNodes) /\ setCursor(cursor)
    \/ MarkerManager_dispose

SpecCursor == InitMarker /\ [][NextCursor]_vars

\* SpecRegistry: markers registered and unregistered in any order; a marker
\* handed to registerMarker has not been disposed by then.
NextRegistry ==
    \/ \E id \in MarkerIds, marker \in MarkerObjects \ disposedObjects :
          nodeCount < MaxNodes /\ registerMarker(id, marker)
    \/ \E id \in MarkerIds : unregisterMarker(id)

SpecRegistry == InitMarker /\ [][NextRegistry]_vars

\* ---- default keyboard shortcuts ----------------------------------------------
Names == <<"escape", "delete", "copy", "cut", "paste", "undo", "redo">>

\* no selection, and the empty clipboard
Nothing == [none |-> TRUE]

\* what can be selected: a block or another copyable, with its flags; only a
\* block can sit in a flyout
Selections ==
    {s \in [isBlock : BOOLEAN, deletable : BOOLEAN, movable : BOOLEAN, inFlyout : BOOLEAN] :
        s.inFlyout => s.isBlock}

\* ShortcutRegistry.createSerializedKey: the chord of a base key and modifiers,
\* whatever the order of the modifiers
createSerializedKey(base, modifiers) == <<base, Range(modifiers)>>

Key(base, modifiers) == createSerializedKey(base, modifiers)

Variants(base, modifiers) ==
    << Key(base, modifiers \o <<"CTRL">>),
       Key(base, modifiers \o <<"ALT">>),
       Key(base, modifiers \o <<"META">>) >>

\* variant of keyCodes that gives redo the same chords as undo plus Ctrl+Y
keyCodes_redoWithoutShift(name) ==
    CASE name = "escape" -> << <<"ESC", {}>> >>
      [] name = "delete" -> << <<"DELETE", {}>>, <<"BACKSPACE", {}>> >>
      [] name = "copy" -> Variants("C", << >>)
      [] name = "cut" -> Variants("X", << >>)
      [] name = "paste" -> Variants("V", << >>)
      [] name = "undo" -> Variants("Z", << >>)
      [] name = "redo" -> Variants("Z", << >>) \o << Key("Y", <<"CTRL">>) >>

\* the keyCodes of the shortcut record registered under the name
keyCodes(name) ==
    CASE name = "escape" -> << <<"ESC", {}>> >>
      [] name = "delete" -> << <<"DELETE", {}>>, <<"BACKSPACE", {}>> >>
      [] name = "copy" -> Variants("C", << >>)
      [] name = "cut" -> Variants("X", << >>)
      [] name = "paste" -> Variants("V", << >>)
      [] name = "undo" -> Variants("Z", << >>)
      [] name = "redo" -> Variants("Z", <<"SHIFT">>) \o << Key("Y", <<"CTRL">>) >>

\* variant of preconditionFn in which redo does not look at the read-only option
preconditionFn_redoIgnoringReadOnly(name) ==
    CASE name = "escape" -> ~readOnly
      [] name = "delete" -> ~readOnly /\ selected # Nothing /\ selected.deletable
      [] name = "copy" ->
            /\ ~readOnly
            /\ ~gestureInProgress
            /\ selected # Nothing
            /\ selected.deletable
            /\ selected.movable
      [] name = "cut" ->
            /\ ~readOnly
            /\ ~gestureInProgress
            /\ selected # Nothing
            /\ selected.isBlock
            /\ selected.deletable
            /\ selected.movable
            /\ ~selected.inFlyout
      [] name = "paste" -> ~readOnly /\ ~gestureInProgress
      [] name = "undo" -> ~readOnly /\ ~gestureInProgress
      [] name = "redo" -> ~gestureInProgress

\* the preconditionFn of the shortcut record registered under the name
preconditionFn(name) ==
    CASE name = "escape" -> ~readOnly
      [] name = "delete" -> ~readOnly /\ selected # Nothing /\ selected.deletable
      [] name = "copy" ->
            /\ ~readOnly
            /\ ~gestureInProgress
            /\ selected # Nothing
            /\ selected.deletable
            /\ selected.movable
      [] name = "cut" ->
            /\ ~readOnly
            /\ ~gestureInProgress
            /\ selected # Nothing
            /\ selected.isBlock
            /\ selected.deletable
            /\ selected.movable
            /\ ~selected.inFlyout
      [] name = "paste" -> ~readOnly /\ ~gestureInProgress
      [] name = "undo" -> ~readOnly /\ ~gestureInProgress
      [] name = "redo" -> ~gestureInProgress /\ ~readOnly

\* what a callback leaves behind: its calls in order, the value it returned,
\* whether it threw, and the selection and the clipboard afterwards
Outcome(calls, result, threw, sel, clip) ==
    [calls |-> calls, result |-> result, raised |-> threw, selected |-> sel, clipboard |-> clip]

\* the selection after BlockSvg.checkAndDelete(): a deletable block is gone
checkAndDelete(sel) == IF sel.deletable THEN Nothing ELSE sel

\* variant of the delete callback that deletes while a gesture is in progress
deleteCallback_duringGesture ==
    IF selected = Nothing
    THEN Outcome(<<"preventDefault">>, FALSE, TRUE, selected, clipboard)
    ELSE Outcome(<<"preventDefault", "checkAndDelete">>, TRUE, FALSE,
                 checkAndDelete(selected), clipboard)

\* variant of the delete callback that tests the gesture before anything else
deleteCallback_gestureFirst ==
    IF gestureInProgress
    THEN Outcome(<< >>, FALSE, FALSE, selected, clipboard)
    ELSE IF selected = Nothing
         THEN Outcome(<<"preventDefault">>, FALSE, TRUE, selected, clipboard)
         ELSE Outcome(<<"preventDefault", "checkAndDelete">>, TRUE, FALSE,
                      checkAndDelete(selected), clipboard)

\* registerDelete: callback
deleteCallback ==
    IF gestureInProgress
    THEN Outcome(<<"preventDefault">>, FALSE, FALSE, selected, clipboard)
    ELSE IF selected = Nothing
         THEN Outcome(<<"preventDefault">>, FALSE, TRUE, selected, clipboard)
         ELSE Outcome(<<"preventDefault", "checkAndDelete">>, TRUE, FALSE,
                      checkAndDelete(selected), clipboard)

\* registerCopy: callback
copyCallback ==
    IF selected = Nothing
    THEN Outcome(<<"preventDefault", "hideChaff", "copy">>, FALSE, TRUE, selected, clipboard)
    ELSE Outcome(<<"preventDefault", "hideChaff", "copy">>, TRUE, FALSE, selected, selected)

\* variant of the cut callback that deletes before it copies
cutCallback_deleteFirst ==
    IF selected = Nothing
    THEN Outcome(<< >>, FALSE, FALSE, selected, clipboard)
    ELSE Outcome(<<"checkAndDelete", "copy">>, TRUE, FALSE, checkAndDelete(selected),
                 checkAndDelete(selected))

\* registerCut: callback
cutCallback ==
    IF selected = Nothing
    THEN Outcome(<< >>, FALSE, FALSE, selected, clipboard)
    ELSE Outcome(<<"copy", "checkAndDelete">>, TRUE, FALSE, checkAndDelete(selected), selected)

\* registerPaste: callback; clipboard.paste() returns what it pasted, or null
pasteCallback == Outcome(<<"paste">>, clipboard # Nothing, FALSE, selected, clipboard)

\* registerUndo: callback
undoCallback == Outcome(<<"hideChaff", "undo(false)">>, TRUE, FALSE, selected, clipboard)

\* registerRedo: callback
redoCallback == Outcome(<<"hideChaff", "undo(true)">>, TRUE, FALSE, selected, clipboard)

\* registerEscape: callback
escapeCallback == Outcome(<<"hideChaff">>, TRUE, FALSE, selected, clipboard)

\* the callback of the shortcut record registered under the name
callbackOf(name) ==
    CASE name = "escape" -> escapeCallback
      [] name = "delete" -> deleteCallback
      [] name = "copy" -> copyCallback
      [] name = "cut" -> cutCallback
      [] name = "paste" -> pasteCallback
      [] name = "undo" -> undoCallback
      [] name = "redo" -> redoCallback

ShortcutFrame ==
    UNCHANGED <<menuVars, itemVars, domVars, outVars, markerVars, toolboxVars, zoomVars>>

ApplyOutcome(r) ==
    /\ shortcutCalls' = r.calls
    /\ shortcutResult' = r.result
    /\ shortcutRaised' = r.raised
    /\ selected' = r.selected
    /\ clipboard' = r.clipboard

\* a call of the callback of a default shortcut, whatever its precondition says
callback(name) ==
    /\ ApplyOutcome(callbackOf(name))
    /\ shortcutOp' = [op |-> "callback", name |-> name, chord |-> << >>]
    /\ UNCHANGED <<readOnly, gestureInProgress>>
    /\ ShortcutFrame

\* the names registered for a chord, in the order of registerDefaultShortcuts
namesFor(chord) == SelectSeq(Names, LAMBDA name : chord \in Range(keyCodes(name)))

\* a key event handed to the shortcut registry: the registry calls the
\* callback of a shortcut registered for the chord only when its precondition
\* holds, and reports whether a callback handled the event
onKeyDown(chord) ==
    /\ IF namesFor(chord) # << >> /\ preconditionFn(Head(namesFor(chord)))
       THEN ApplyOutcome(callbackOf(Head(namesFor(chord))))
       ELSE ApplyOutcome(Outcome(<< >>, FALSE, FALSE, selected, clipboard))
    /\ shortcutOp' = [op |-> "onKeyDown",
                      name |-> IF namesFor(chord) # << >> THEN Head(namesFor(chord)) ELSE "",
                      chord |-> chord]
    /\ UNCHANGED <<readOnly, gestureInProgress>>
    /\ ShortcutFrame

\* the workspace, the gesture and the selection change
ShortcutQuiet ==
    /\ shortcutCalls' = << >>
    /\ shortcutResult' = FALSE
    /\ shortcutRaised' = FALSE
    /\ ShortcutFrame

setReadOnly(b) ==
    /\ readOnly' = b
    /\ shortcutOp' = [op |-> "setReadOnly", name |-> "", chord |-> << >>]
    /\ UNCHANGED <<gestureInProgress, selected, clipboard>>
    /\ ShortcutQuiet

setGestureInProgress(b) ==
    /\ gestureInProgress' = b
    /\ shortcutOp' = [op |-> "gesture", name |-> "", chord |-> << >>]
    /\ UNCHANGED <<readOnly, selected, clipboard>>
    /\ ShortcutQuiet

setSelected(sel) ==
    /\ selected' = sel
    /\ shortcutOp' = [op |-> "setSelected", name |-> "", chord |-> << >>]
    /\ UNCHANGED <<readOnly, gestureInProgress, clipboard>>
    /\ ShortcutQuiet

\* the chords a key event can carry: chords of every default shortcut, and two
\* chords of none
Chords ==
    {<<"ESC", {}>>, <<"DELETE", {}>>, <<"BACKSPACE", {}>>, <<"C", {"CTRL"}>>, <<"X", {"META"}>>,
     <<"V", {"ALT"}>>, <<"Z", {"CTRL"}>>, <<"Z", {"SHIFT", "META"}>>, <<"Y", {"CTRL"}>>,
     <<"Z", {}>>, <<"Y", {"META"}>>}

\* SpecShortcut: the default shortcuts, called directly and through the registry
NextShortcut ==
    \/ \E b \in BOOLEAN : setReadOnly(b)
    \/ \E b \in BOOLEAN : setGestureInProgress(b)
    \/ \E sel \in Selections \cup {Nothing} : setSelected(sel)
    \/ \E k \in 1 .. Len(Names) : callback(Names[k])
    \/ \E chord \in Chords : onKeyDown(chord)

SpecShortcut == Init /\ [][NextShortcut]_vars

\* ---- ToolboxCategory ------------------------------------------------------------
\* JavaScript truthiness of a string or undefined
Truthy(value) == value \notin {Undefined, ""}

\* parsing.replaceMessageReferences: a reference to a known message is replaced
\* by the message, anything else is left as it is
replaceMessageReferences(value) ==
    IF value = "%{BKY_LOGIC_HUE}" THEN "210" ELSE value

\* ! isNaN(Number(color)), for a string that is not empty
isNumber(color) == color \in {"0", "210"}

\* colourUtils.hueToHex(Number(color)): the hex colour of a hue
hueToHex(color) ==
    CASE color = "0" -> "#a55b5b"
      [] color = "210" -> "#5b80a5"

\* colourUtils.parse: the #rrggbb form of a colour, or undefined (null) when the
\* string is no colour
colourUtils_parse(color) ==
    CASE color = "#57e" -> "#5577ee"
      [] color = "#a5745b" -> "#a5745b"
      [] color = "red" -> "#ff0000"
      [] OTHER -> Undefined

\* what a colour function gives: the value it returns and what it logged
Resolved(value, warnings) == [value |-> value, warnings |-> warnings]

\* ToolboxCategory.parseColour_
parseColour_(value) ==
    LET color == replaceMessageReferences(value)
    IN  IF color = Undefined THEN Resolved("", << >>)
        ELSE IF color = "" THEN Resolved("", << >>)
        ELSE IF isNumber(color) THEN Resolved(hueToHex(color), << >>)
        ELSE IF Truthy(colourUtils_parse(color)) THEN Resolved(colourUtils_parse(color), << >>)
        ELSE Resolved("", <<"unrecognized color attribute">>)

\* ToolboxCategory.getColourfromStyle_
getColourfromStyle_(name) ==
    IF ~Truthy(name) THEN Resolved("", << >>)
    ELSE IF ~theme.exists THEN Resolved("", << >>)
    ELSE LET colour == IF theme.categoryStyles[name] = NoStyle
                       THEN Undefined
                       ELSE theme.categoryStyles[name]
         IN  IF Truthy(colour)
             THEN parseColour_(colour)
             ELSE Resolved("", <<"style must exist and contain a colour value">>)

\* variant of getColour_ that lets the style win over the colour
getColour__preferringStyle(category) ==
    LET styleName == IF category.categorystyle # Undefined
                     THEN category.categorystyle
                     ELSE category.categoryStyle
        colour == category.colour
    IN  IF Truthy(styleName) THEN getColourfromStyle_(styleName)
        ELSE IF Truthy(colour) THEN parseColour_(colour)
        ELSE Resolved("", << >>)

\* ToolboxCategory.getColour_
getColour_(category) ==
    LET styleName == IF category.categorystyle # Undefined
                     THEN category.categorystyle
                     ELSE category.categoryStyle
        colour == category.colour
    IN  IF Truthy(colour) /\ Truthy(styleName)
        THEN Resolved("", <<"must not have both a style and a colour">>)
        ELSE IF Truthy(styleName) THEN getColourfromStyle_(styleName)
        ELSE IF Truthy(colour) THEN parseColour_(colour)
        ELSE Resolved("", << >>)

\* ToolboxCategory.addColourBorder_: the border colour of the row afterwards
addColourBorder_(color) == IF ~Truthy(color) THEN borderColour ELSE color

ToolboxFrame ==
    UNCHANGED <<menuVars, itemVars, domVars, outVars, markerVars, shortcutVars, zoomVars>>

\* ToolboxCategory.init: parseCategoryDef_, parseContents_ and createDom_
ToolboxCategory_init ==
    /\ ~rowDiv_
    /\ colour_' = getColour_(toolboxItemDef_).value
    /\ toolboxWarnings' = getColour_(toolboxItemDef_).warnings
    /\ rowDiv_' = TRUE
    /\ ariaSelected' = FALSE
    /\ borderColour' = addColourBorder_(getColour_(toolboxItemDef_).value)
    /\ toolboxOp' = [op |-> "init", flag |-> FALSE]
    /\ UNCHANGED <<toolboxItemDef_, theme, backgroundColor, selectedClass>>
    /\ ToolboxFrame

\* ToolboxCategory.refreshTheme, of a category that has its DOM
refreshTheme ==
    /\ rowDiv_
    /\ colour_' = getColour_(toolboxItemDef_).value
    /\ toolboxWarnings' = getColour_(toolboxItemDef_).warnings
    /\ borderColour' = addColourBorder_(getColour_(toolboxItemDef_).value)
    /\ toolboxOp' = [op |-> "refreshTheme", flag |-> FALSE]
    /\ UNCHANGED <<toolboxItemDef_, theme, rowDiv_, backgroundColor, selectedClass, ariaSelected>>
    /\ ToolboxFrame

\* ToolboxCategory.setSelected
ToolboxCategory_setSelected(isSelected) ==
    /\ IF ~rowDiv_
       THEN /\ toolboxWarnings' = << >>
            /\ UNCHANGED <<backgroundColor, selectedClass, ariaSelected>>
       ELSE /\ backgroundColor' =
                 IF isSelected
                 THEN IF colour_ # Undefined
                      THEN colour_
                      ELSE parseColour_(defaultBackgroundColour).value
                 ELSE ""
            /\ toolboxWarnings' =
                 IF isSelected THEN parseColour_(defaultBackgroundColour).warnings ELSE << >>
            /\ selectedClass' = isSelected
            /\ ariaSelected' = isSelected
    /\ toolboxOp' = [op |-> "setSelected", flag |-> isSelected]
    /\ UNCHANGED <<toolboxItemDef_, theme, colour_, rowDiv_, borderColour>>
    /\ ToolboxFrame

\* the workspace gets another theme
setTheme(t) ==
    /\ theme' = t
    /\ toolboxWarnings' = << >>
    /\ toolboxOp' = [op |-> "setTheme", flag |-> FALSE]
    /\ UNCHANGED <<toolboxItemDef_, colour_, rowDiv_, backgroundColor, borderColour,
                   selectedClass, ariaSelected>>
    /\ ToolboxFrame

\* a category made from any of the definitions, under any of the themes
InitToolbox ==
    /\ MenuInit
    /\ MarkerInit
    /\ ShortcutInit
    /\ ZoomInit
    /\ CategoryInit
    /\ hasCanvas = TRUE
    /\ disposeRemovesDom = TRUE
    /\ toolboxItemDef_ \in CategoryDefs
    /\ theme \in Themes

\* SpecToolbox: a toolbox category whose colour is resolved and which is
\* selected and deselected
NextToolbox ==
    \/ ToolboxCategory_init
    \/ refreshTheme
    \/ \E isSelected \in BOOLEAN : ToolboxCategory_setSelected(isSelected)
    \/ \E t \in Themes : setTheme(t)

SpecToolbox == InitToolbox /\ [][NextToolbox]_vars

\* ---- ZoomControls ---------------------------------------------------------------
ZoomFrame ==
    UNCHANGED <<menuVars, itemVars, domVars, outVars, markerVars, shortcutVars, toolboxVars>>

\* ZoomControls.createDom of a movable workspace: createZoomResetSvg binds the
\* pointerdown listener of the reset button
ZoomControls_createDom ==
    /\ ~zoomBound
    /\ ~zoomDisposed
    /\ zoomBound' = TRUE
    /\ zoomOp' = [op |-> "createDom", click |-> 0]
    /\ UNCHANGED <<zoomTimers, zoomBegun, zoomEnded, zoomClicks, zoomDisposed>>
    /\ ZoomFrame

\* ZoomControls.resetZoom, called by the bound listener for a click
resetZoom ==
    /\ zoomBound
    /\ zoomClicks < MaxClicks
    /\ zoomClicks' = zoomClicks + 1
    /\ zoomBegun' = [zoomBegun EXCEPT ![zoomClicks + 1] = @ + 1]
    /\ zoomTimers' = [zoomTimers EXCEPT ![zoomClicks + 1] = TransitionDelay]
    /\ zoomOp' = [op |-> "resetZoom", click |-> zoomClicks + 1]
    /\ UNCHANGED <<zoomEnded, zoomBound, zoomDisposed>>
    /\ ZoomFrame

\* variant of ZoomControls.dispose that clears the pending timeouts
ZoomControls_dispose_clearingTimeouts ==
    /\ ~zoomDisposed
    /\ zoomDisposed' = TRUE
    /\ zoomBound' = FALSE
    /\ zoomTimers' = [c \in Clicks |-> NoTimeout]
    /\ zoomOp' = [op |-> "dispose", click |-> 0]
    /\ UNCHANGED <<zoomBegun, zoomEnded, zoomClicks>>
    /\ ZoomFrame

\* ZoomControls.dispose
ZoomControls_dispose ==
    /\ ~zoomDisposed
    /\ zoomDisposed' = TRUE
    /\ zoomBound' = FALSE
    /\ zoomOp' = [op |-> "dispose", click |-> 0]
    /\ UNCHANGED <<zoomTimers, zoomBegun, zoomEnded, zoomClicks>>
    /\ ZoomFrame

\* the clicks whose timeout is pending
PendingTimeouts == {c \in Clicks : zoomTimers[c] # NoTimeout}

\* time passes, up to the moment the next timeout is due
elapse(d) ==
    /\ PendingTimeouts # {}
    /\ \A c \in PendingTimeouts : zoomTimers[c] > 0
    /\ LET passed == CHOOSE t \in {d} \cup {zoomTimers[c] : c \in PendingTimeouts} :
                         \A u \in {d} \cup {zoomTimers[c] : c \in PendingTimeouts} : t <= u
       IN  zoomTimers' = [c \in Clicks |->
                             IF c \in PendingTimeouts THEN zoomTimers[c] - passed ELSE NoTimeout]
    /\ zoomOp' = [op |-> "elapse", click |-> 0]
    /\ UNCHANGED <<zoomBegun, zoomEnded, zoomClicks, zoomBound, zoomDisposed>>
    /\ ZoomFrame

\* the timeout of a click is due: the event loop calls
\* workspace.endCanvasTransition
timeout(c) ==
    /\ zoomTimers[c] = 0
    /\ zoomEnded' = [zoomEnded EXCEPT ![c] = @ + 1]
    /\ zoomTimers' = [zoomTimers EXCEPT ![c] = NoTimeout]
    /\ zoomOp' = [op |-> "timeout", click |-> c]
    /\ UNCHANGED <<zoomBegun, zoomClicks, zoomBound, zoomDisposed>>
    /\ ZoomFrame

TimePasses == \E d \in Elapses : elapse(d)
TimeoutFires == \E c \in Clicks : timeout(c)

\* SpecZoom: zoom controls whose reset button is clicked, and which are disposed
NextZoom ==
    \/ ZoomControls_createDom
    \/ resetZoom
    \/ ZoomControls_dispose
    \/ TimePasses
    \/ TimeoutFires

SpecZoom == Init /\ [][NextZoom]_vars

\* SpecZoomLive: time does not stop while a timeout is pending, and the event
\* loop runs a timeout that is due
SpecZoomLive == SpecZoom /\ WF_vars(TimePasses) /\ WF_vars(TimeoutFires)

\* SpecItem: the methods of the items called directly, on items inside and
\* outside a menu.
NextItem ==
    \/ build
    \/ dispose
    \/ \E item \in Items : onAction(item)
    \/ \E item \in Items : performAction(item)
    \/ \E item \in Items, b \in BOOLEAN : itemSetHighlighted(item, b)

SpecItem == Init /\ [][NextItem]_vars

\* ---- vocabulary of the properties --------------------------------------------
\* positions are 1-based places in menuItems
Positions == 1 .. Len(menuItems)
EnabledPositions == {k \in Positions : enabled[menuItems[k]]}
Min(S) == CHOOSE k \in S : \A j \in S : k <= j
Max(S) == CHOOSE k \in S : \A j \in S : k >= j
PositionOf(item) == CHOOSE k \in Positions : menuItems[k] = item
Highlighted == {i \in Items : highlight[i]}
HandledKeys == {ENTER, SPACE, UP, DOWN, PAGE_UP, HOME, PAGE_DOWN, END_KEY}
\* the item whose div is, or contains, the node
OwnerOf(node) == IF node[1] \in {"item", "content"} THEN node[2] ELSE Null
\* the straight-line distance between two positions is below one pixel
WithinOnePixel(a, b) ==
    LET dx == a[1] - b[1]
        dy == a[2] - b[2]
    IN  dx * dx + dy * dy < OnePixel * OnePixel
MenuState == <<menuVars, itemVars, domVars>>

\* how often a call occurs in a sequence of calls
Count(calls, call) == Cardinality({k \in 1 .. Len(calls) : calls[k] = call})
\* the objects the registry holds
Registered == {markers[id] : id \in MarkerIds} \ {Null}

\* ---- C1 ----------------------------------------------------------------------
\* C1: in every reachable state at most one item has its highlighted flag set,
\* and an item's flag is set exactly when the item is the menu's highlightedItem.
C1_OneHighlighted ==
    /\ Cardinality(Highlighted) <= 1
    /\ \A i \in Items : highlight[i] <=> (highlightedItem = i)

\* setHighlighted(1), item 1 disabled (its class stays behind), setHighlighted(2)
C1_Witness ==
    /\ lastOp.op = "setHighlighted"
    /\ highlightedItem = 2
    /\ highlight[2]
    /\ ~highlight[1]
    /\ classHighlight[1]

\* ---- C2 ----------------------------------------------------------------------
\* C2: after setHighlighted(null) on a rendered menu no item is highlighted and
\* the active-descendant attribute of the menu references no item.
C2_NullLeavesNoActiveDescendant ==
    (lastOp.op = "setHighlighted" /\ highlightedItem = Null /\ element # Null)
        => (Highlighted = {} /\ activeDescendant = NoId)

\* ---- C3 ----------------------------------------------------------------------
\* C3: a highlightNext() call on a menu with no highlight highlights the first
\* enabled item; a call that moves the highlight from an enabled item moves it
\* to the next enabled item in insertion order; a call with the last enabled
\* item highlighted leaves it highlighted; no call highlights a disabled item.
C3_NextVisitsEnabledInOrder ==
    [][lastOp'.op = "highlightNext" =>
        /\ (highlightedItem = Null /\ EnabledPositions # {})
              => highlightedItem' = menuItems[Min(EnabledPositions)]
        /\ (highlightedItem = Null /\ EnabledPositions = {}) => highlightedItem' = Null
        /\ (highlightedItem' # highlightedItem)
              => (highlightedItem' # Null /\ enabled[highlightedItem'])
        /\ (highlightedItem \in Range(menuItems) /\ enabled[highlightedItem]) =>
              LET here == PositionOf(highlightedItem)
              IN  IF here = Max(EnabledPositions)
                  THEN highlightedItem' = highlightedItem
                  ELSE /\ highlightedItem' \in Range(menuItems)
                       /\ PositionOf(highlightedItem') > here
                       /\ \A k \in EnabledPositions :
                             k > here => k >= PositionOf(highlightedItem')
    ]_vars

\* highlightNext() skipped the disabled first item
C3_Witness ==
    /\ lastOp.op = "highlightNext"
    /\ Len(menuItems) = 2
    /\ ~enabled[1]
    /\ enabled[2]
    /\ highlightedItem = 2
    /\ element # Null
    /\ activeDescendant = getId(2)

\* ---- C4 ----------------------------------------------------------------------
\* C4: a highlightPrevious() call on a menu with no highlight highlights the
\* enabled item of greatest index; a call that moves the highlight from an
\* enabled item moves it to the nearest enabled item of smaller index; a call
\* with the first enabled item highlighted leaves it highlighted.
C4_PreviousWalksBackward ==
    [][lastOp'.op = "highlightPrevious" =>
        /\ (highlightedItem = Null /\ EnabledPositions # {})
              => highlightedItem' = menuItems[Max(EnabledPositions)]
        /\ (highlightedItem = Null /\ EnabledPositions = {}) => highlightedItem' = Null
        /\ (highlightedItem' # highlightedItem)
              => (highlightedItem' # Null /\ enabled[highlightedItem'])
        /\ (highlightedItem \in Range(menuItems) /\ enabled[highlightedItem]) =>
              LET here == PositionOf(highlightedItem)
              IN  IF here = Min(EnabledPositions)
                  THEN highlightedItem' = highlightedItem
                  ELSE /\ highlightedItem' \in Range(menuItems)
                       /\ PositionOf(highlightedItem') < here
                       /\ \A k \in EnabledPositions :
                             k < here => k <= PositionOf(highlightedItem')
    ]_vars

\* highlightPrevious() from no highlight skipped the disabled last item
C4_Witness ==
    /\ lastOp.op = "highlightPrevious"
    /\ Len(menuItems) = 2
    /\ enabled[1]
    /\ ~enabled[2]
    /\ highlightedItem = 1
    /\ element # Null
    /\ activeDescendant = getId(1)

C6_HomeEndHighlightFirstLast ==
    [][(/\ lastOp'.op = "keydown"
        /\ ~lastOp'.mod
        /\ ~isEmpty
        /\ lastOp'.key \in {HOME, PAGE_UP, END_KEY, PAGE_DOWN}) =>
        LET goal == IF lastOp'.key \in {HOME, PAGE_UP}
                    THEN menuItems[Min(EnabledPositions)]
                    ELSE menuItems[Max(EnabledPositions)]
        IN  IF EnabledPositions = {}
            THEN highlightedItem' = highlightedItem /\ highlight' = highlight
            ELSE highlightedItem' = goal /\ highlight' = [i \in Items |-> i = goal]
    ]_vars

\* End moved the highlight to the second item, the first one being enabled too
C6_Witness ==
    /\ lastOp.op = "keydown"
    /\ lastOp.key = END_KEY
    /\ ~lastOp.mod
    /\ Len(menuItems) = 2
    /\ enabled[1]
    /\ enabled[2]
    /\ highlightedItem = 2
    /\ activeDescendant = getId(2)

\* ---- C7 ----------------------------------------------------------------------
\* C7: a keydown on an empty menu, or with shift, ctrl, meta or alt held,
\* changes no state of the menu or its items, performs no action and calls
\* neither stopPropagation nor preventDefault, whatever the key.
C7_IgnoredKeyChangesNothing ==
    [][(lastOp'.op = "keydown" /\ (isEmpty \/ lastOp'.mod)) =>
        /\ UNCHANGED MenuState
        /\ called' = << >>
        /\ performed' = << >>
        /\ ~stopped'
        /\ ~prevented'
    ]_vars

\* Enter with a modifier held while an enabled item with a handler is highlighted
C7_Witness ==
    /\ lastOp.op = "keydown"
    /\ lastOp.mod
    /\ lastOp.key = ENTER
    /\ highlightedItem # Null
    /\ enabled[highlightedItem]
    /\ actionHandler[highlightedItem]
    /\ performed = << >>
    /\ ~stopped

\* ---- C8 ----------------------------------------------------------------------
\* C8: for a keydown without modifiers on a non-empty menu, stopPropagation and
\* preventDefault are both called exactly when the key is one of Enter, Space,
\* Up, Down, PageUp, Home, PageDown, End, whether or not the key had an effect;
\* for any other key the state of the menu and its items is unchanged.
C8_HandledKeysAreStopped ==
    [][(lastOp'.op = "keydown" /\ ~lastOp'.mod /\ ~isEmpty) =>
        /\ stopped' <=> (lastOp'.key \in HandledKeys)
        /\ prevented' <=> (lastOp'.key \in HandledKeys)
        /\ (lastOp'.key \notin HandledKeys) =>
              (UNCHANGED MenuState /\ called' = << >> /\ performed' = << >>)
    ]_vars

\* Enter with no highlighted item: nothing to do, and still stopped and prevented
C8_Witness ==
    /\ lastOp.op = "keydown"
    /\ ~lastOp.mod
    /\ lastOp.key = ENTER
    /\ ~isEmpty
    /\ highlightedItem = Null
    /\ stopped
    /\ prevented

\* ---- C9 ----------------------------------------------------------------------
\* C9: an Enter or Space keydown without modifiers on a non-empty menu runs the
\* action handler of the highlighted item once when that item is enabled, runs
\* no handler when nothing is highlighted or the highlighted item is disabled,
\* and leaves the highlight as it was.
C9_EnterPerformsHighlighted ==
    [][(/\ lastOp'.op = "keydown"
        /\ ~lastOp'.mod
        /\ ~isEmpty
        /\ lastOp'.key \in {ENTER, SPACE}) =>
        /\ performed' = IF /\ highlightedItem # Null
                           /\ enabled[highlightedItem]
                           /\ actionHandler[highlightedItem]
                        THEN <<highlightedItem>>
                        ELSE << >>
        /\ highlightedItem' = highlightedItem
        /\ highlight' = highlight
    ]_vars

\* Space ran the handler of the highlighted second item
C9_Witness ==
    /\ lastOp.op = "keydown"
    /\ lastOp.key = SPACE
    /\ ~lastOp.mod
    /\ highlightedItem = 2
    /\ performed = <<2>>

\* ---- C10 ---------------------------------------------------------------------
\* C10: with openingCoords set, a click closer than one pixel to it calls
\* performAction on no item, and a click one pixel or more away calls it on the
\* item owning the event target; openingCoords is null after every click.
C10_ClickNearOpeningSuppressed ==
    [][lastOp'.op = "click" =>
        /\ openingCoords' = NoCoord
        /\ (openingCoords # NoCoord /\ lastOp'.client # NotANumber) =>
              IF WithinOnePixel(openingCoords, lastOp'.client)
              THEN called' = << >>
              ELSE called' = IF OwnerOf(lastOp'.target) = Null
                             THEN << >>
                             ELSE <<OwnerOf(lastOp'.target)>>
    ]_vars

\* a click exactly one pixel from the opening position reached the item's handler
C10_Witness ==
    /\ lastOp.op = "click"
    /\ lastOp.opening = <<0, 0>>
    /\ lastOp.client = <<2, 0>>
    /\ called = <<1>>
    /\ performed = <<1>>
    /\ openingCoords = NoCoord

\* ---- C11 ---------------------------------------------------------------------
\* C11: every click handling leaves openingCoords null, and has cleared it before
\* it dispatches: every action handler the click runs sees openingCoords already
\* null.  So one opening position suppresses at most one click: a click that
\* finds openingCoords null, such as the click following a click, performs the
\* action of the item under the pointer whatever its position.
C11_ClearedBeforeDispatch ==
    [][lastOp'.op = "click" =>
        /\ openingCoords' = NoCoord
        /\ \A k \in 1 .. Len(seenCoords') : seenCoords'[k] = NoCoord
        /\ Len(seenCoords') = Len(performed')
        /\ (openingCoords = NoCoord \/ lastOp.op = "click") =>
              called' = IF OwnerOf(lastOp'.target) = Null
                        THEN << >>
                        ELSE <<OwnerOf(lastOp'.target)>>
    ]_vars

\* a click at the opening position, after the position was used up, ran the handler
C11_Witness ==
    /\ lastOp.op = "click"
    /\ lastOp.opening = NoCoord
    /\ lastOp.client = <<0, 0>>
    /\ performed = <<1>>
    /\ seenCoords = <<NoCoord>>

\* ---- C12 ---------------------------------------------------------------------
\* C12: a pointer-over event whose target lies in an enabled item that is not
\* highlighted makes that item the only highlighted one; in the enabled item that
\* is already highlighted it changes nothing; in a disabled item it clears the
\* highlight; and on no item (the root) it leaves the highlight as it was.
C12_PointerOverHighlights ==
    [][lastOp'.op = "pointerover" =>
        LET item == OwnerOf(lastOp'.target)
        IN  IF item = Null
            THEN /\ highlightedItem' = highlightedItem
                 /\ highlight' = highlight
                 /\ classHighlight' = classHighlight
            ELSE IF ~enabled[item]
            THEN /\ highlightedItem' = Null
                 /\ Highlighted' = {}
            ELSE IF highlightedItem = item
            THEN MenuState' = MenuState
            ELSE /\ highlightedItem' = item
                 /\ Highlighted' = {item}
                 /\ classHighlight'[item]
    ]_vars

\* the pointer went over the disabled item 2 while item 1 was highlighted
C12_Witness ==
    /\ lastOp.op = "pointerover"
    /\ OwnerOf(lastOp.target) = 2
    /\ ~enabled[2]
    /\ highlightedItem = Null
    /\ Highlighted = {}
    /\ activeDescendant = getId(1)

\* ---- C13 ---------------------------------------------------------------------
\* C13: a pointer-leave event on a rendered menu leaves the menu blurred and no
\* item highlighted; a pointer-enter event on a rendered menu focuses it and
\* leaves the highlight as it was; and a pointer-leave event on a menu whose
\* element is null changes no state.
C13_PointerLeaveAndEnter ==
    [][/\ (lastOp'.op = "pointerleave" /\ element # Null) =>
            /\ ~focused'
            /\ highlightedItem' = Null
            /\ Highlighted' = {}
       /\ (lastOp'.op = "pointerenter" /\ element # Null) =>
            /\ focused'
            /\ highlightedItem' = highlightedItem
            /\ highlight' = highlight
            /\ classHighlight' = classHighlight
       /\ (lastOp'.op = "pointerleave" /\ element = Null) => MenuState' = MenuState
    ]_vars

\* the pointer left a focused menu whose item 1 was highlighted
C13_Witness ==
    /\ lastOp.op = "pointerleave"
    /\ element # Null
    /\ ~focused
    /\ highlightedItem = Null
    /\ activeDescendant = getId(1)

\* ---- C14 ---------------------------------------------------------------------
\* C14: dispose() of a rendered menu leaves getElement() null, unbinds each of the
\* five listeners of the render exactly once and leaves the five stored handles
\* null, and leaves every child item without DOM element; dispose() of a menu
\* that is not rendered unbinds nothing; and dispose() never fails.
C14_DisposeReleasesEverything ==
    [][lastOp'.op = "dispose" =>
        /\ element' = Null
        /\ mouseOverHandler' = Null
        /\ clickHandler' = Null
        /\ mouseEnterHandler' = Null
        /\ mouseLeaveHandler' = Null
        /\ onKeyDownHandler' = Null
        /\ \A k \in 1 .. Len(menuItems) : itemElement'[menuItems[k]] = Null
        /\ ~raised'
        /\ IF element # Null
           THEN /\ Len(unbound') = Cardinality(EventTypes)
                /\ Range(unbound') = {<<t, element>> : t \in EventTypes}
                /\ bound' = bound \ Range(unbound')
           ELSE /\ unbound' = << >>
                /\ bound' = bound
    ]_vars

\* a menu with two items was disposed after its render
C14_Witness ==
    /\ lastOp.op = "dispose"
    /\ Len(unbound) = 5
    /\ Len(menuItems) = 2
    /\ renderCount = 1
    /\ bound = {}

\* ---- C15 ---------------------------------------------------------------------
\* C15: whatever the sequence of render and dispose calls, render twice without a
\* dispose between included, after a dispose no listener bound by any render is
\* still bound.
C15_NoListenerLeftBound == lastOp.op = "dispose" => bound = {}

\* ---- C16 ---------------------------------------------------------------------
\* C16: a keyboard or pointer event handed to a menu that has items and has no
\* root element, because it was never rendered or because it was disposed,
\* does not raise.
C16_NoRaiseWithoutElement ==
    [][(/\ lastOp'.op \in {"keydown", "pointerover", "pointerenter", "pointerleave", "click"}
        /\ element = Null
        /\ ~isEmpty)
       => ~raised']_vars

\* ---- C17 ---------------------------------------------------------------------
\* C17: every addChild puts its item behind the items added before, and render
\* gives the root one child per added item, the k-th child being the element of
\* the k-th added item: the DOM order is the insertion order.
C17_ChildrenInInsertionOrder ==
    [][/\ lastOp'.op = "addChild" =>
            /\ Len(menuItems') = Len(menuItems) + 1
            /\ SubSeq(menuItems', 1, Len(menuItems)) = menuItems
       /\ lastOp'.op = "render" =>
            /\ menuItems' = menuItems
            /\ Len(rootChildren') = Len(menuItems)
            /\ \A k \in 1 .. Len(menuItems) :
                  /\ rootChildren'[k] = menuItems[k]
                  /\ itemElement'[menuItems[k]] = element'
                  /\ itemNode(menuItems[k])' = <<"item", menuItems[k], element'>>
    ]_vars

\* a menu of two items was rendered
C17_Witness ==
    /\ lastOp.op = "render"
    /\ menuItems = <<1, 2>>
    /\ rootChildren = <<1, 2>>
    /\ itemElement[1] = element
    /\ itemElement[2] = element

\* ---- C18 ---------------------------------------------------------------------
\* C18: performAction() on a disabled item runs no handler and changes no state;
\* on an enabled item with a registered handler it runs that handler exactly once,
\* with the item as argument; and with no handler registered it runs nothing and
\* does not fail.
C18_PerformActionGuarded ==
    [][lastOp'.op = "performAction" =>
        LET item == lastOp'.item
        IN  /\ MenuState' = MenuState
            /\ ~raised'
            /\ performed' = IF enabled[item] /\ actionHandler[item] THEN <<item>> ELSE << >>
    ]_vars

\* performAction() of the disabled item 1, which has a handler, ran nothing
C18_Witness ==
    /\ lastOp.op = "performAction"
    /\ lastOp.item = 1
    /\ ~enabled[1]
    /\ actionHandler[1]
    /\ performed = << >>

\* ---- C19 ---------------------------------------------------------------------
\* C19 as stated: setHighlighted(b) on a disabled item changes neither the
\* item's highlighted flag nor its CSS highlight class; on an enabled item that
\* has a DOM element it sets both the flag and the class to b.
C19_DisabledIsNoOp ==
    [][lastOp'.op = "MenuItem.setHighlighted" =>
        LET item == lastOp'.item
        IN  /\ ~enabled[item] =>
                  /\ highlight'[item] = highlight[item]
                  /\ classHighlight'[item] = classHighlight[item]
            /\ (enabled[item] /\ itemElement[item] # Null) =>
                  /\ highlight'[item] = lastOp'.flag
                  /\ classHighlight'[item] = lastOp'.flag
    ]_vars

\* C19 amended: setHighlighted(b) always sets the item's highlighted flag to b;
\* on a disabled item, and on an item without DOM element, it leaves the CSS
\* highlight class as it was; on an enabled item that has a DOM element it sets
\* the class to b as well.  Nothing else changes.
C19_DisabledKeepsClassOnly ==
    [][lastOp'.op = "MenuItem.setHighlighted" =>
        LET item == lastOp'.item
        IN  /\ highlight' = [highlight EXCEPT ![item] = lastOp'.flag]
            /\ classHighlight' = [classHighlight EXCEPT ![item] =
                                    IF enabled[item] /\ itemElement[item] # Null
                                    THEN lastOp'.flag
                                    ELSE @]
            /\ UNCHANGED <<menuVars, enabled, actionHandler, itemElement>>
    ]_vars

\* setHighlighted(true) of the disabled, rendered item 1: flag set, class not
C19_Witness ==
    /\ lastOp.op = "MenuItem.setHighlighted"
    /\ lastOp.item = 1
    /\ lastOp.flag
    /\ ~enabled[1]
    /\ itemElement[1] # Null
    /\ highlight[1]
    /\ ~classHighlight[1]

\* ---- C20 ---------------------------------------------------------------------
\* C20: when the block canvas exists, after every registerMarker, unregisterMarker
\* and setCursor the node of the current cursor is a child of the canvas and
\* comes after the node of every registered marker; registerMarker puts the new
\* marker node immediately before the cursor node when a cursor is set and at the
\* end otherwise; and setCursor leaves the new cursor node as the last child.
C20_CursorAfterMarkers ==
    [][hasCanvas =>
        /\ cursor_' # Null =>
              /\ cursorSvg_' = drawerDom'[cursor_']
              /\ placeOf(canvas', cursorSvg_') > 0
              /\ \A id \in MarkerIds :
                    markers'[id] # Null =>
                       placeOf(canvas', drawerDom'[markers'[id]]) < placeOf(canvas', cursorSvg_')
        /\ (markerOp'.op = "registerMarker" /\ nodeCount' # nodeCount) =>
              /\ ~markerRaised'
              /\ markers'[markerOp'.id] = markerOp'.obj
              /\ IF cursor_ # Null
                 THEN placeOf(canvas', nodeCount') + 1 = placeOf(canvas', cursorSvg_)
                 ELSE placeOf(canvas', nodeCount') = Len(canvas')
        /\ (markerOp'.op = "setCursor" /\ nodeCount' # nodeCount) =>
              /\ cursorSvg_' = nodeCount'
              /\ placeOf(canvas', nodeCount') = Len(canvas')
    ]_vars

\* a marker was registered while a cursor was set and another marker registered
C20_Witness ==
    /\ hasCanvas
    /\ markerOp.op = "registerMarker"
    /\ cursor_ # Null
    /\ markers["a"] # Null
    /\ markers["b"] # Null
    /\ Len(canvas) >= 3
    /\ canvas[Len(canvas)] = cursorSvg_
    /\ canvas[Len(canvas) - 1] = nodeCount

\* ---- C21 ---------------------------------------------------------------------
\* C21: unregisterMarker(id) of an id that is not registered throws and leaves
\* the registry, the markers and the canvas as they were; of a registered id it
\* disposes the marker of that entry exactly once and removes the entry, so that
\* getMarker(id) is null afterwards, and leaves every other entry as it was.
C21_UnregisterThrowsOrDisposes ==
    [][markerOp'.op = "unregisterMarker" =>
        LET id == markerOp'.id
        IN  IF getMarker(id) = Null
            THEN /\ markerRaised'
                 /\ markerCalls' = << >>
                 /\ UNCHANGED <<markers, markerKeys, drawerDom, canvas, cursor_, cursorSvg_>>
            ELSE /\ ~markerRaised'
                 /\ markerCalls' = << <<"dispose", getMarker(id)>> >>
                 /\ markers'[id] = Null
                 /\ id \notin Range(markerKeys')
                 /\ \A other \in MarkerIds \ {id} : getMarker(other)' = getMarker(other)
    ]_vars

\* marker 11 was unregistered from "a" while marker 12 stays registered under "b"
C21_Witness ==
    /\ markerOp.op = "unregisterMarker"
    /\ markerOp.id = "a"
    /\ ~markerRaised
    /\ markerCalls = << <<"dispose", 11>> >>
    /\ markers["a"] = Null
    /\ markers["b"] = 12

\* ---- C22 ---------------------------------------------------------------------
\* C22: registerMarker(id, m2) of an id registered to m1 does not throw, disposes
\* m1 exactly once and does so before the drawer of m2 is made; afterwards
\* getMarker(id) is m2 and the registry has one entry for id.  When id is not
\* registered it disposes nothing.
C22_ReregisterDisposesOldFirst ==
    [][markerOp'.op = "registerMarker" =>
        LET id == markerOp'.id
            m1 == getMarker(id)
            m2 == markerOp'.obj
            disposals == {k \in 1 .. Len(markerCalls') : markerCalls'[k][1] = "dispose"}
        IN  /\ ~markerRaised'
            /\ markers'[id] = m2
            /\ Cardinality({k \in 1 .. Len(markerKeys') : markerKeys'[k] = id}) = 1
            /\ Count(markerCalls', <<"makeMarkerDrawer", m2>>) = 1
            /\ IF m1 # Null
               THEN /\ disposals = {1}
                    /\ markerCalls'[1] = <<"dispose", m1>>
                    /\ \A k \in 1 .. Len(markerCalls') :
                          markerCalls'[k] = <<"makeMarkerDrawer", m2>> => k > 1
               ELSE disposals = {}
    ]_vars

\* "a", registered to marker 11, was registered to marker 12
C22_Witness ==
    /\ markerOp.op = "registerMarker"
    /\ markerOp.id = "a"
    /\ markers["a"] = 12
    /\ markerCalls[1] = <<"dispose", 11>>
    /\ markerCalls[2] = <<"makeMarkerDrawer", 12>>

\* ---- C23 ---------------------------------------------------------------------
\* C23: setCursor(c2) while a cursor c1 is current disposes the drawer of c1
\* exactly once and does not dispose c1; it then has the renderer make a drawer
\* for c2, attaches it and creates its DOM, and getCursor() is c2 afterwards.
\* With no current cursor it disposes nothing.
C23_SetCursorDisposesDrawerOnly ==
    [][markerOp'.op = "setCursor" =>
        LET c1 == getCursor
            c2 == markerOp'.obj
            made == << <<"makeMarkerDrawer", c2>>, <<"setDrawer", c2>>, <<"createDom", c2>> >>
        IN  /\ getCursor' = c2
            /\ drawerDom'[c2] = cursorSvg_'
            /\ drawerDom'[c2] = nodeCount'
            /\ nodeCount' = nodeCount + 1
            /\ \A o \in Cursors \cup MarkerObjects : Count(markerCalls', <<"dispose", o>>) = 0
            /\ IF c1 # Null
               THEN markerCalls' = << <<"drawer.dispose", c1>> >> \o made
               ELSE markerCalls' = made
    ]_vars

\* cursor 22 replaced cursor 21
C23_Witness ==
    /\ markerOp.op = "setCursor"
    /\ cursor_ = 22
    /\ markerCalls[1] = <<"drawer.dispose", 21>>
    /\ Len(markerCalls) = 4
    /\ cursorSvg_ = drawerDom[22]

\* ---- C24 ---------------------------------------------------------------------
\* C24: MarkerManager.dispose() disposes every registered marker exactly once and
\* leaves the registry empty, then disposes the cursor if one is set, after all
\* the markers, and leaves getCursor() null; it does not throw.
C24_DisposeEachOnce ==
    [][markerOp'.op = "dispose" =>
        /\ ~markerRaised'
        /\ \A id \in MarkerIds : getMarker(id)' = Null
        /\ getCursor' = Null
        /\ \A m \in MarkerObjects :
              Count(markerCalls', <<"dispose", m>>) = IF m \in Registered THEN 1 ELSE 0
        /\ \A c \in Cursors :
              Count(markerCalls', <<"dispose", c>>) = IF c = getCursor THEN 1 ELSE 0
        /\ getCursor # Null => markerCalls'[Len(markerCalls')] = <<"dispose", getCursor>>
    ]_vars

\* ---- C25 ---------------------------------------------------------------------
\* C25: updateMarkers() asks the workspace's cursor to draw exactly when
\* keyboard-accessibility mode is on and the manager has a cursor DOM; otherwise
\* it calls nothing; and it never changes the registry, the cursor or the canvas.
C25_UpdateMarkersDrawsOnly ==
    [][markerOp'.op = "updateMarkers" =>
        /\ markerCalls' = IF keyboardAccessibilityMode /\ cursorSvg_ # Null
                          THEN << <<"draw", Null>> >>
                          ELSE << >>
        /\ ~markerRaised'
        /\ UNCHANGED <<markers, markerKeys, cursor_, cursorSvg_, drawerDom, canvas>>
    ]_vars

\* updateMarkers() in keyboard-accessibility mode with a cursor set asked for a redraw
C25_Witness ==
    /\ markerOp.op = "updateMarkers"
    /\ keyboardAccessibilityMode
    /\ cursor_ # Null
    /\ markerCalls = << <<"draw", Null>> >>

\* the places of a call in the calls of the last shortcut operation
PlacesOf(call) == {k \in 1 .. Len(shortcutCalls) : shortcutCalls[k] = call}

\* ---- C26 ---------------------------------------------------------------------
\* C26: every run of the Delete/Backspace callback calls event.preventDefault()
\* first; with a drag gesture in progress it then returns false and deletes
\* nothing; with no gesture and a selection it deletes the selection exactly once
\* and returns true.
C26_DeletePreventsDefaultFirst ==
    [][(shortcutOp'.op = "callback" /\ shortcutOp'.name = "delete") =>
        /\ Len(shortcutCalls') >= 1
        /\ shortcutCalls'[1] = "preventDefault"
        /\ PlacesOf("preventDefault")' = {1}
        /\ gestureInProgress =>
              /\ shortcutResult' = FALSE
              /\ ~shortcutRaised'
              /\ PlacesOf("checkAndDelete")' = {}
              /\ selected' = selected
        /\ (~gestureInProgress /\ selected # Nothing) =>
              /\ shortcutResult' = TRUE
              /\ ~shortcutRaised'
              /\ PlacesOf("checkAndDelete")' = {2}
              /\ selected.deletable => selected' = Nothing
    ]_vars

\* the delete callback ran during a drag gesture with a deletable selection
C26_Witness ==
    /\ shortcutOp.op = "callback"
    /\ shortcutOp.name = "delete"
    /\ gestureInProgress
    /\ selected # Nothing
    /\ selected.deletable
    /\ shortcutCalls = <<"preventDefault">>
    /\ shortcutResult = FALSE

\* ---- C27 ---------------------------------------------------------------------
\* C27: when a Delete or Backspace key event goes through a registry that calls
\* a callback only when its precondition holds, preventDefault is called, also
\* when the precondition of delete fails (no selection, selection not deletable,
\* read-only workspace).
C27_DeleteAlwaysSuppressesDefault ==
    [][(shortcutOp'.op = "onKeyDown" /\ shortcutOp'.chord \in {<<"DELETE", {}>>, <<"BACKSPACE", {}>>})
       => PlacesOf("preventDefault")' # {}]_vars

\* ---- C28 ---------------------------------------------------------------------
\* C28: the Copy callback and the Cut callback call workspace.hideChaff() before
\* they copy the selection to the clipboard, and so before Cut deletes.
C28_ChaffHiddenBeforeCopy ==
    [][(shortcutOp'.op = "callback" /\ shortcutOp'.name \in {"copy", "cut"}) =>
        \A k \in PlacesOf("copy")' :
            \E h \in PlacesOf("hideChaff")' : h < k
    ]_vars

\* ---- C29 ---------------------------------------------------------------------
\* C29: the Cut callback with a selection copies the selection to the clipboard
\* and then deletes it, once each and in that order, and returns true; with no
\* selection it returns false and neither copies nor deletes.
C29_CutCopiesThenDeletes ==
    [][(shortcutOp'.op = "callback" /\ shortcutOp'.name = "cut") =>
        IF selected # Nothing
        THEN /\ shortcutResult' = TRUE
             /\ ~shortcutRaised'
             /\ Cardinality(PlacesOf("copy")') = 1
             /\ Cardinality(PlacesOf("checkAndDelete")') = 1
             /\ \A c \in PlacesOf("copy")', d \in PlacesOf("checkAndDelete")' : c < d
             /\ clipboard' = selected
             /\ selected.deletable => selected' = Nothing
        ELSE /\ shortcutResult' = FALSE
             /\ ~shortcutRaised'
             /\ shortcutCalls' = << >>
             /\ UNCHANGED <<selected, clipboard>>
    ]_vars

\* the cut callback ran on a deletable block
C29_Witness ==
    /\ shortcutOp.op = "callback"
    /\ shortcutOp.name = "cut"
    /\ shortcutCalls = <<"copy", "checkAndDelete">>
    /\ shortcutResult = TRUE
    /\ selected = Nothing
    /\ clipboard # Nothing
    /\ clipboard.deletable

\* ---- C30 ---------------------------------------------------------------------
\* C30: the Undo callback calls workspace.undo(false) and the Redo callback
\* workspace.undo(true), once, after hideChaff, and returns true; Undo is
\* registered for the three chords Ctrl+Z, Alt+Z, Meta+Z and for no other, Redo
\* for the four chords Ctrl+Shift+Z, Alt+Shift+Z, Meta+Shift+Z and Ctrl+Y and for
\* no other.
C30_UndoRedoDirectionAndChords ==
    [][/\ (shortcutOp'.op = "callback" /\ shortcutOp'.name = "undo") =>
            /\ shortcutCalls' = <<"hideChaff", "undo(false)">>
            /\ shortcutResult' = TRUE
       /\ (shortcutOp'.op = "callback" /\ shortcutOp'.name = "redo") =>
            /\ shortcutCalls' = <<"hideChaff", "undo(true)">>
            /\ shortcutResult' = TRUE
       /\ Range(keyCodes("undo")) = {<<"Z", {"CTRL"}>>, <<"Z", {"ALT"}>>, <<"Z", {"META"}>>}
       /\ Len(keyCodes("undo")) = 3
       /\ Range(keyCodes("redo")) = {<<"Z", {"CTRL", "SHIFT"}>>, <<"Z", {"ALT", "SHIFT"}>>,
                                     <<"Z", {"META", "SHIFT"}>>, <<"Y", {"CTRL"}>>}
       /\ Len(keyCodes("redo")) = 4
       /\ (shortcutOp'.op = "onKeyDown" /\ "undo(true)" \in Range(shortcutCalls')) =>
             shortcutOp'.chord \in {<<"Z", {"CTRL", "SHIFT"}>>, <<"Z", {"ALT", "SHIFT"}>>,
                                    <<"Z", {"META", "SHIFT"}>>, <<"Y", {"CTRL"}>>}
       /\ (shortcutOp'.op = "onKeyDown" /\ "undo(false)" \in Range(shortcutCalls')) =>
             shortcutOp'.chord \in {<<"Z", {"CTRL"}>>, <<"Z", {"ALT"}>>, <<"Z", {"META"}>>}
    ]_vars

\* Ctrl+Y went through the registry and redid
C30_Witness ==
    /\ shortcutOp.op = "onKeyDown"
    /\ shortcutOp.chord = <<"Y", {"CTRL"}>>
    /\ shortcutOp.name = "redo"
    /\ shortcutCalls = <<"hideChaff", "undo(true)">>
    /\ shortcutResult = TRUE

\* ---- C31 ---------------------------------------------------------------------
\* the calls by which a callback acts on the workspace
Effects == {"hideChaff", "copy", "checkAndDelete", "paste", "undo(false)", "undo(true)",
            "preventDefault"}

\* C31: while the workspace is read-only the precondition of each of the seven
\* default shortcuts is false, whatever the selection and the gesture, and a key
\* event handed to the registry runs no callback: nothing is called, nothing is
\* reported handled, and the selection and the clipboard stay as they were.
C31_ReadOnlyDisablesEveryShortcut ==
    [][readOnly =>
        /\ \A k \in 1 .. Len(Names) : ~preconditionFn(Names[k])
        /\ shortcutOp'.op = "onKeyDown" =>
            /\ shortcutCalls' = << >>
            /\ ~shortcutResult'
            /\ ~shortcutRaised'
            /\ selected' = selected
            /\ clipboard' = clipboard]_vars

\* a chord of redo arrived in a read-only workspace with a deletable, movable
\* block selected and no gesture in progress
C31_Witness ==
    /\ readOnly
    /\ ~gestureInProgress
    /\ shortcutOp.op = "onKeyDown"
    /\ shortcutOp.name = "redo"
    /\ selected # Nothing
    /\ selected.isBlock /\ selected.deletable /\ selected.movable /\ ~selected.inFlyout
    /\ shortcutCalls = << >>

\* ---- C32 ---------------------------------------------------------------------
\* C32: while a drag gesture is in progress the preconditions of copy, cut,
\* paste, undo and redo are false, a key event handed to the registry copies,
\* deletes, pastes, undoes and redoes nothing, and the delete callback returns
\* false without deleting.
C32_GestureBlocksShortcuts ==
    [][gestureInProgress =>
        /\ \A name \in {"copy", "cut", "paste", "undo", "redo"} : ~preconditionFn(name)
        /\ shortcutOp'.op = "onKeyDown" =>
            /\ Range(shortcutCalls') \cap (Effects \ {"hideChaff", "preventDefault"}) = {}
            /\ selected' = selected
            /\ clipboard' = clipboard
        /\ shortcutOp'.op = "callback" /\ shortcutOp'.name = "delete" =>
            /\ ~shortcutResult'
            /\ "checkAndDelete" \notin Range(shortcutCalls')
            /\ selected' = selected]_vars

\* Delete arrived during a gesture with a deletable block selected: the callback
\* ran, suppressed the browser default and left the block alone
C32_Witness ==
    /\ gestureInProgress
    /\ ~readOnly
    /\ shortcutOp.op = "onKeyDown"
    /\ shortcutOp.name = "delete"
    /\ shortcutCalls = <<"preventDefault">>
    /\ ~shortcutResult
    /\ selected # Nothing
    /\ selected.deletable

\* ---- C33 ---------------------------------------------------------------------
\* the style a category definition names: categorystyle, or categoryStyle when
\* categorystyle is not given
StyleOf(category) ==
    IF category.categorystyle # Undefined THEN category.categorystyle ELSE category.categoryStyle
HasColour == Truthy(toolboxItemDef_.colour)
HasStyle == Truthy(StyleOf(toolboxItemDef_))
\* the colour the theme gives the style of the definition, undefined when the
\* theme has no such style or the style has no colour
StyleColour ==
    LET entry == theme.categoryStyles[StyleOf(toolboxItemDef_)]
    IN  IF entry \in {NoStyle, Undefined, ""} THEN Undefined ELSE entry
\* the definition names one colour value to resolve, its own or its style's
ColourGiven ==
    \/ HasColour /\ ~HasStyle
    \/ HasStyle /\ ~HasColour /\ theme.exists /\ StyleColour # Undefined
GivenColour == IF HasColour THEN toolboxItemDef_.colour ELSE StyleColour
\* the hex colours a hue or a colour string stands for
HexColours == {"#a55b5b", "#5b80a5", "#5577ee", "#a5745b", "#ff0000"}
IsHue(value) == replaceMessageReferences(value) \in {"0", "210"}
IsColourString(value) == replaceMessageReferences(value) \in {"#57e", "#a5745b", "red"}
Warned == toolboxWarnings # << >>

\* C33: resolving the colour of a category always ends with a hex colour or the
\* empty string.  It ends with the empty string and a logged warning when the
\* definition has both a colour and a style, when the theme lacks the named
\* style or the style has no colour, and when the colour value is neither a hue
\* nor a colour string; a hue or a colour string gives its hex colour and no
\* warning.
C33_ColourResolution ==
    toolboxOp.op \in {"init", "refreshTheme"} =>
        /\ colour_ \in HexColours \cup {""}
        /\ HasColour /\ HasStyle => colour_ = "" /\ Warned
        /\ HasStyle /\ ~HasColour /\ theme.exists /\ StyleColour = Undefined =>
              colour_ = "" /\ Warned
        /\ ColourGiven /\ ~IsHue(GivenColour) /\ ~IsColourString(GivenColour) =>
              colour_ = "" /\ Warned
        /\ ColourGiven /\ IsHue(GivenColour) =>
              colour_ = hueToHex(replaceMessageReferences(GivenColour)) /\ ~Warned
        /\ ColourGiven /\ IsColourString(GivenColour) =>
              colour_ = colourUtils_parse(GivenColour) /\ ~Warned

\* a category with a colour and a style was initialised: no colour, a warning
C33_Witness ==
    /\ toolboxOp.op = "init"
    /\ HasColour
    /\ HasStyle
    /\ IsHue(toolboxItemDef_.colour)
    /\ colour_ = ""
    /\ Warned

\* ---- C34 ---------------------------------------------------------------------
\* C34: setSelected(true) on a category that has its row gives the row the
\* category's colour as background colour, or the default background colour
\* when the category has no colour; setSelected(false) clears the background
\* colour.
C34_SelectedBackground ==
    [][toolboxOp'.op = "setSelected" /\ rowDiv_ =>
        backgroundColor' =
            IF ~toolboxOp'.flag THEN ""
            ELSE IF colour_ = "" THEN colourUtils_parse(defaultBackgroundColour)
            ELSE colour_]_vars

\* ---- C35 ---------------------------------------------------------------------
\* C35: a zoom-reset click that began a canvas transition is followed, once its
\* delay of 500 ms has passed, by exactly one call of
\* workspace.endCanvasTransition: never more than one, never before the delay
\* is over, and eventually one, also when the zoom controls are disposed while
\* the timeout is pending.
C35_TransitionEndsOnce ==
    /\ [](\A c \in Clicks : zoomEnded[c] <= zoomBegun[c] /\ zoomEnded[c] <= 1)
    /\ [][\A c \in Clicks : zoomEnded'[c] # zoomEnded[c] => zoomTimers[c] = 0]_vars
    /\ \A c \in Clicks : (zoomBegun[c] = 1) ~> (zoomEnded[c] = 1)
    /\ \A c \in Clicks :
          (zoomDisposed /\ zoomTimers[c] # NoTimeout) ~> (zoomDisposed /\ zoomEnded[c] = 1)

\* the timeout of the first click ran on zoom controls that were disposed
\* in the meantime
C35_Witness ==
    /\ zoomDisposed
    /\ zoomOp.op = "timeout"
    /\ zoomOp.click = 1
    /\ zoomBegun[1] = 1
    /\ zoomEnded[1] = 1

\* ---- C36 ---------------------------------------------------------------------
\* C36: on a rendered menu whose items keep the enabled flags they had when it
\* was rendered, and which only receives pointer and keyboard events, the
\* highlighted item is null or an enabled item of the menu; no event makes a
\* disabled item the highlighted item.
C36_HighlightedIsEnabledMember ==
    element # Null /\ highlightedItem # Null =>
        /\ highlightedItem \in Range(menuItems)
        /\ enabled[highlightedItem]

\* the pointer came over a disabled item while an enabled one was highlighted
\* by the keyboard or the pointer before, or a key moved the highlight past a
\* disabled item: here, a key event left an item highlighted in a menu that has
\* a disabled item before it
C36_Witness ==
    /\ element # Null
    /\ lastOp.op = "keydown"
    /\ highlightedItem # Null
    /\ \E k \in Positions : k < PositionOf(highlightedItem) /\ ~enabled[menuItems[k]]

\* ---- C37 ---------------------------------------------------------------------
\* C37: on a rendered menu, under MenuItem.setEnabled and the highlight
\* operations of the menu, the element of an item carries the CSS highlight
\* class exactly when the highlighted flag of the item is true.
C37_ClassFollowsFlag ==
    element # Null =>
        \A item \in Range(menuItems) :
            itemElement[item] # Null => (classHighlight[item] <=> highlight[item])

\* ---- C38 ---------------------------------------------------------------------
\* C38: under setCursor (with a cursor or null), registerMarker,
\* unregisterMarker and dispose, the manager holds a cursor DOM node exactly
\* when it holds a cursor, so that no marker is ever inserted before the node
\* of a cursor that was replaced, cleared or disposed.
C38_CursorSvgIffCursor ==
    (cursorSvg_ # Null) <=> (cursor_ # Null)

\* ---- C39 ---------------------------------------------------------------------
\* C39: under registerMarker and unregisterMarker, also when a marker that is
\* registered is registered again under its own or under a second id, no marker
\* in the registry has been disposed, and no marker is disposed a second time.
C39_NoDisposedMarkerHeld ==
    [][/\ \A id \in MarkerIds : markers'[id] # Null => markers'[id] \notin disposedObjects'
       /\ \A marker \in MarkerObjects :
             /\ Count(markerCalls', <<"dispose", marker>>) <= 1
             /\ Count(markerCalls', <<"dispose", marker>>) = 1 => marker \notin disposedObjects]_vars

====
